---- MODULE Spec2Model ----
(***************************************************************************)
(* Conneccity: accessible multimodal routing.                              *)
(*                                                                         *)
(* The model covers the query facade (api/app/main.py), the engine wrapper *)
(* (api/app/ffi.py) and the itinerary builder (api/app/route_utils.py).    *)
(* The native graph engine (core-c: dijkstra_shortest, k_shortest_yen,     *)
(* node_index_by_id) is not part of the Python sources; it is modelled     *)
(* from sections 4.2-4.4 of the specification.                             *)
(***************************************************************************)
EXTENDS Integers, Sequences, FiniteSets, TLC

VARIABLES
    nodes,      \* node table (CSV rows, index i is row i+1): [id, name]
    edges,      \* edge table (CSV rows)
    nodes_df,   \* main.py global nodes_df: "None" or "loaded"
    edges_df,   \* main.py global edges_df: "None" or "loaded"
    req,        \* the request being answered
    resp,       \* the response of the last request
    cache,            \* LRUCache.cache: entries [key, value, timestamp], in
                      \* insertion order
    access_times,     \* LRUCache.access_times: entries [key, time], in
                      \* insertion order
    clock,            \* time.time(), in seconds
    written,          \* for each key, the last set of it and whether the key
                      \* was evicted or cleared since (history variable)
    got,              \* the last cache call and what it returned
    route_buffers,    \* the Route structs the native engine filled for the
                      \* last wrapper call: [len, frees, stale_reads]
    pipeline_status,  \* PipelineManager.status
    pipeline_calls,   \* per caller, its PipelineManager coroutine: the
                      \* method called and where it stands
    is_running,       \* DataStreamer.is_running
    workers,          \* per stream, its _stream_worker task: where it
                      \* stands, its retry_count, the run of failed cycles
                      \* behind it (history), the outcome of its last cycle
    failed_streams    \* DataStreamer.stats['failed_streams']

facade_vars == <<nodes, edges, nodes_df, edges_df, req, resp>>
cache_vars == <<cache, access_times, clock, written, got>>
ffi_vars == <<route_buffers>>
pipeline_vars == <<pipeline_status, pipeline_calls>>
stream_vars == <<is_running, workers, failed_streams>>

vars == <<facade_vars, cache_vars, ffi_vars, pipeline_vars, stream_vars>>

\* the objects beside the facade as they are constructed
NoCall == [op |-> "none", key |-> "", value |-> "None", at |-> 0,
           evicted |-> "None"]

CacheConstructed ==
    /\ cache = <<>>
    /\ access_times = <<>>
    /\ clock = 0
    /\ written = <<>>
    /\ got = NoCall

FfiConstructed == route_buffers = <<>>

\* the callers of PipelineManager coroutines, each with at most one
\* coroutine in flight
Callers == {"first", "second"}

PipelineConstructed ==
    /\ pipeline_status = "stopped"
    /\ pipeline_calls = [c \in Callers |-> [op |-> "none", pc |-> "returned"]]

\* the streams added to the DataStreamer
Streams == {"gtfs_realtime", "osm_changes"}

\* no _stream_worker task was created for the stream yet
NoWorker == [pc |-> "none", retry_count |-> 0, failed_cycles |-> 0,
             last |-> "none", cancelled |-> FALSE]

StreamerConstructed ==
    /\ is_running = FALSE
    /\ workers = [s \in Streams |-> NoWorker]
    /\ failed_streams = 0

(***************************************************************************)
(* Bounds of the model.                                                    *)
(***************************************************************************)
MaxK == 4          \* largest k of an alternatives request
MaxPathLen == 5    \* longest client-supplied path of a route_details request

----------------------------------------------------------------------------
(***************************************************************************)
(* Generic helpers.                                                        *)
(***************************************************************************)
Range(s) == {s[i] : i \in 1..Len(s)}

\* the element of a one-element set
Only(S) == CHOOSE x \in S : TRUE

RECURSIVE SumSeq(_)
SumSeq(s) == IF s = <<>> THEN 0 ELSE s[1] + SumSeq(Tail(s))

\* lexicographic order on integer sequences (strict)
RECURSIVE LexLess(_, _)
LexLess(a, b) ==
    IF b = <<>> THEN FALSE
    ELSE IF a = <<>> THEN TRUE
    ELSE IF a[1] # b[1] THEN a[1] < b[1]
    ELSE LexLess(Tail(a), Tail(b))

----------------------------------------------------------------------------
(***************************************************************************)
(* Graph data.  The node table is the five-node sample of the test suite;  *)
(* an edge table is a sub-sequence of EdgePool (the seven sample edges and *)
(* five more edges that close cycles and add a slow direct hop).           *)
(***************************************************************************)
NodeTable == <<
    [id |-> "A", name |-> "Estacao Hig-Mack"],
    [id |-> "B", name |-> "Ponto R Consolacao"],
    [id |-> "C", name |-> "Rampa Paulista"],
    [id |-> "D", name |-> "Terminal Pacaembu"],
    [id |-> "E", name |-> "Entrada Hospital"] >>

\* a name cell that is empty in the CSV: pandas reads it as NaN
NaN == "<NaN>"

\* the sample nodes, the fourth without a name
NamelessTable == [NodeTable EXCEPT ![4].name = NaN]

Row(f, t, tm, tr, es, cr, ra, m) ==
    [from |-> f, to |-> t, tempo_min |-> tm, transferencia |-> tr,
     escada |-> es, calcada_ruim |-> cr, risco_alag |-> ra, modo |-> m]

EdgePool == <<
    Row("A", "B", 3, 1, 0, 0, 0, "pe"),
    Row("B", "E", 6, 0, 0, 1, 0, "pe"),
    Row("A", "C", 4, 1, 0, 0, 0, "pe"),
    Row("C", "D", 5, 0, 0, 0, 1, "onibus"),
    Row("D", "E", 6, 0, 0, 0, 1, "onibus"),
    Row("C", "E", 7, 0, 0, 0, 0, "pe"),
    Row("A", "D", 9, 1, 0, 0, 0, "onibus"),
    Row("B", "C", 1, 0, 1, 0, 0, "metro"),
    Row("D", "C", 2, 0, 0, 0, 0, "pe"),
    Row("C", "B", 1, 0, 0, 0, 0, "pe"),
    Row("E", "D", 2, 1, 0, 0, 0, "metro"),
    Row("B", "D", 9, 1, 0, 0, 0, "onibus") >>

\* the rows of pool whose position is in keep, in pool order
RECURSIVE SubTable(_, _, _)
SubTable(pool, keep, i) ==
    IF i > Len(pool) THEN <<>>
    ELSE IF i \in keep THEN <<pool[i]>> \o SubTable(pool, keep, i + 1)
    ELSE SubTable(pool, keep, i + 1)

\* a table whose PcD bad-pavement penalty outweighs two minutes of travel
WEIGHTS_steep_pavement ==
    [padrao |-> [alpha |-> 6, beta |-> 2,  gamma |-> 1, delta |-> 4],
     idoso  |-> [alpha |-> 6, beta |-> 4,  gamma |-> 2, delta |-> 4],
     pcd    |-> [alpha |-> 6, beta |-> 12, gamma |-> 13, delta |-> 4]]

DEFAULT_WEIGHTS ==
    [padrao |-> [alpha |-> 6, beta |-> 2,  gamma |-> 1, delta |-> 4],
     idoso  |-> [alpha |-> 6, beta |-> 4,  gamma |-> 2, delta |-> 4],
     pcd    |-> [alpha |-> 6, beta |-> 12, gamma |-> 6, delta |-> 4]]

Perfis == DOMAIN DEFAULT_WEIGHTS

----------------------------------------------------------------------------
(***************************************************************************)
(* Native engine (modelled from the specification).                        *)
(***************************************************************************)
N == Len(nodes)
Idx == 0..(N - 1)

\* node_index_by_id: index of the row whose id is node_id, -1 when absent
node_index_by_id(node_id) ==
    IF \E i \in Idx : nodes[i + 1].id = node_id
    THEN CHOOSE i \in Idx : nodes[i + 1].id = node_id
    ELSE -1

TransferPenalty == 1

\* section 4.2: cost of one edge under cost parameters p
edge_cost(e, p) ==
      p.alpha * e.tempo_min
    + (IF e.escada = 1 /\ p.perfil_pcd = 1 THEN p.beta ELSE 0)
    + (IF e.calcada_ruim = 1 /\ p.perfil_pcd = 1 THEN p.gamma ELSE 0)
    + (IF e.risco_alag = 1 /\ p.chuva_on = 1 THEN p.delta ELSE 0)
    + (IF e.transferencia = 1 THEN TransferPenalty ELSE 0)

\* the adjacency the engine searches: one arc <<from_idx, to_idx, cost>> per
\* edge row, costed under p
cost_arcs(p) ==
    {<<node_index_by_id(edges[i].from), node_index_by_id(edges[i].to),
       edge_cost(edges[i], p)>> : i \in 1..Len(edges)}

\* heap order: (dist, node_idx)
HeapMin(heap) ==
    CHOOSE x \in heap : \A y \in heap :
        x[1] < y[1] \/ (x[1] = y[1] /\ x[2] <= y[2])

RECURSIVE BuildPath(_, _, _)
BuildPath(pred, s, v) ==
    IF v = s THEN <<s>>
    ELSE Append(BuildPath(pred, s, (CHOOSE x \in pred : x[1] = v)[2]), v)

NoRoute == [path |-> <<>>, len |-> 0, custo |-> 0]

\* a relaxation that also replaces the predecessor on an equal distance
improves_or_ties(new_dist, best_known) == new_dist <= best_known

\* a relaxation replaces the best-known distance only by a smaller one
improves(new_dist, best_known) == new_dist < best_known

\* section 4.3: Dijkstra with lazy deletion and early termination, run on
\* the arcs g with the arcs in exclE and the nodes in exclN masked out.
\* dist and pred are sets of pairs <<node, value>> of the nodes reached.
RECURSIVE DijkstraLoop(_, _, _, _, _, _, _, _, _)
DijkstraLoop(g, s, t, exclE, exclN, dist, pred, heap, settled) ==
    IF heap = {} THEN NoRoute
    ELSE
      LET top == HeapMin(heap)
          u == top[2]
          du == top[1]
          rest == heap \ {top}
      IN
        IF u \in settled
        THEN DijkstraLoop(g, s, t, exclE, exclN, dist, pred, rest, settled)
        ELSE IF u = t
        THEN LET path == BuildPath(pred, s, t)
             IN [path |-> path, len |-> Len(path), custo |-> du]
        ELSE
          LET out == {a \in g : /\ a[1] = u
                                /\ <<a[1], a[2]>> \notin exclE
                                /\ a[2] \notin exclN
                                /\ a[2] \notin settled}
              \* the cheapest relaxation of each neighbour
              relax == {a \in out : \A b \in out : b[2] = a[2] => a[3] <= b[3]}
              better == {a \in relax : \A d \in dist :
                            d[1] = a[2] => improves(du + a[3], d[2])}
              touched == {a[2] : a \in better}
              nd == {d \in dist : d[1] \notin touched}
                        \cup {<<a[2], du + a[3]>> : a \in better}
              np == {x \in pred : x[1] \notin touched}
                        \cup {<<a[2], u>> : a \in better}
              nh == rest \cup {<<du + a[3], a[2]>> : a \in better}
          IN DijkstraLoop(g, s, t, exclE, exclN, nd, np, nh, settled \cup {u})

dijkstra_masked(g, s, t, exclE, exclN) ==
    IF s \in exclN THEN NoRoute
    ELSE DijkstraLoop(g, s, t, exclE, exclN, {<<s, 0>>}, {}, {<<0, s>>}, {})

dijkstra_shortest(s, t, p) == dijkstra_masked(cost_arcs(p), s, t, {}, {})

\* cost of a node-index path along the arcs g
RECURSIVE path_cost(_, _)
path_cost(g, path) ==
    IF Len(path) < 2 THEN 0
    ELSE LET cs == {a[3] : a \in {b \in g : b[1] = path[1] /\ b[2] = path[2]}}
         IN (CHOOSE c \in cs : \A d \in cs : c <= d) + path_cost(g, Tail(path))

\* section 4.4, step 2: the candidate that deviates from route last at
\* position i (the spur node is last[i]); len = 0 when the spur search fails
yen_candidate(g, t, A, last, i) ==
    LET root == SubSeq(last, 1, i)
        exclE == {<<A[q].path[i], A[q].path[i + 1]>> :
                     q \in {r \in 1..Len(A) : /\ A[r].len > i
                                              /\ SubSeq(A[r].path, 1, i) = root}}
        exclN == Range(SubSeq(last, 1, i - 1))
        spur == dijkstra_masked(g, last[i], t, exclE, exclN)
    IN IF spur.len = 0 THEN spur
       ELSE [path |-> SubSeq(last, 1, i - 1) \o spur.path,
             len |-> i - 1 + spur.len,
             custo |-> path_cost(g, root) + spur.custo]

\* the candidate the min-heap pops: cheapest first
yen_pop(B) ==
    CHOOSE b \in B : \A c \in B :
        \/ b.custo < c.custo
        \/ b.custo = c.custo /\ (b.path = c.path \/ LexLess(b.path, c.path))

\* section 4.4: Yen's loop; A are the accepted routes, B the candidate pool
RECURSIVE yen_loop(_, _, _, _, _)
yen_loop(g, t, K, A, B) ==
    IF Len(A) >= K THEN A
    ELSE
      LET last == A[Len(A)].path
          found == {c \in {yen_candidate(g, t, A, last, i) :
                              i \in 1..(Len(last) - 1)} : c.len > 0}
          known == {A[q].path : q \in 1..Len(A)} \cup {b.path : b \in B}
          B2 == B \cup {c \in found : c.path \notin known}
      IN IF B2 = {} THEN A
         ELSE LET nxt == yen_pop(B2)
              IN yen_loop(g, t, K, Append(A, nxt), B2 \ {nxt})

k_shortest_yen(s, t, p, K) ==
    LET g == cost_arcs(p)
        first == dijkstra_masked(g, s, t, {}, {})
    IN IF K < 1 \/ first.len = 0 THEN <<>>
       ELSE yen_loop(g, t, K, <<first>>, {})

----------------------------------------------------------------------------
(***************************************************************************)
(* Engine wrapper (api/app/ffi.py).                                        *)
(***************************************************************************)
\* the weights are copied with their sign flipped
_params_sign_flipped(perfil, chuva) ==
    LET w == DEFAULT_WEIGHTS[perfil]
    IN [alpha |-> 0 - w.alpha, beta |-> 0 - w.beta, gamma |-> 0 - w.gamma,
        delta |-> 0 - w.delta,
        chuva_on |-> IF chuva THEN 1 ELSE 0,
        perfil_pcd |-> IF perfil = "pcd" THEN 1 ELSE 0]

\* the PcD flag is set for the elderly profile as well
_params_flag_for_idoso(perfil, chuva) ==
    LET w == DEFAULT_WEIGHTS[perfil]
    IN [alpha |-> w.alpha, beta |-> w.beta, gamma |-> w.gamma,
        delta |-> w.delta,
        chuva_on |-> IF chuva THEN 1 ELSE 0,
        perfil_pcd |-> IF perfil \in {"pcd", "idoso"} THEN 1 ELSE 0]

_params(perfil, chuva) ==
    LET w == DEFAULT_WEIGHTS[perfil]
    IN [alpha |-> w.alpha, beta |-> w.beta, gamma |-> w.gamma,
        delta |-> w.delta,
        chuva_on |-> IF chuva THEN 1 ELSE 0,
        perfil_pcd |-> IF perfil = "pcd" THEN 1 ELSE 0]

idx(node_id) == node_index_by_id(node_id)

\* a lookup that reads the row after the indexed one
node_id_next_row(i) ==
    IF i < 0 \/ i >= N THEN "" ELSE nodes[((i + 1) % N) + 1].id

node_id(i) == IF i < 0 \/ i >= N THEN "" ELSE nodes[i + 1].id

\* range(r.len - 1): the copy loses the last node
best_short_copy(s, t, p) ==
    LET r == dijkstra_shortest(s, t, p)
    IN IF r.len = 0 THEN [path |-> <<>>, cost |-> 0]
       ELSE [path |-> [i \in 1..(r.len - 1) |-> r.path[i]], cost |-> r.custo]

best(s, t, p) ==
    LET r == dijkstra_shortest(s, t, p)
    IN IF r.len = 0 THEN [path |-> <<>>, cost |-> 0]
       ELSE [path |-> [i \in 1..r.len |-> r.path[i]], cost |-> r.custo]

\* the copy runs two entries past r.len, over buffer entries left at zero
k_alternatives_padded(s, t, p, k) ==
    LET routes == k_shortest_yen(s, t, p, k)
        n == Len(routes)
    IN [i \in 1..n |->
          [path |-> [j \in 1..(routes[i].len + 2) |->
                        IF j <= routes[i].len THEN routes[i].path[j] ELSE 0],
           cost |-> routes[i].custo]]

\* the list is returned costliest first
k_alternatives_reversed(s, t, p, k) ==
    LET routes == k_shortest_yen(s, t, p, k)
        n == Len(routes)
    IN [i \in 1..n |->
          [path |-> [j \in 1..routes[n + 1 - i].len |-> routes[n + 1 - i].path[j]],
           cost |-> routes[n + 1 - i].custo]]

\* every entry is read from routes[0]
k_alternatives_first(s, t, p, k) ==
    LET routes == k_shortest_yen(s, t, p, k)
        n == Len(routes)
    IN [i \in 1..n |->
          [path |-> [j \in 1..routes[1].len |-> routes[1].path[j]],
           cost |-> routes[1].custo]]

\* routes = (Route * k)(): ctypes raises ValueError for a negative length
route_array_ok(k) == k >= 0

k_alternatives(s, t, p, k) ==
    LET routes == k_shortest_yen(s, t, p, k)
        n == Len(routes)
    IN [i \in 1..n |->
          [path |-> [j \in 1..routes[i].len |-> routes[i].path[j]],
           cost |-> routes[i].custo]]

----------------------------------------------------------------------------
(***************************************************************************)
(* Itinerary builder (api/app/route_utils.py).                             *)
(***************************************************************************)
NoEdge == [found |-> FALSE]

\* _edges_by_pair is a dict filled in row order: the last row of a pair wins
get_edge_info(from_node, to_node) ==
    LET rows == {i \in 1..Len(edges) : /\ edges[i].from = from_node
                                       /\ edges[i].to = to_node}
    IN IF rows = {} THEN NoEdge
       ELSE LET row == edges[CHOOSE i \in rows : \A j \in rows : j <= i]
            IN [found |-> TRUE, from |-> row.from, to |-> row.to,
                tempo_min |-> row.tempo_min,
                transferencia |-> row.transferencia,
                escada |-> row.escada, calcada_ruim |-> row.calcada_ruim,
                risco_alag |-> row.risco_alag, modo |-> row.modo]

\* the loop of calculate_transfers from hop i on (hop i is path[i] -> path[i+1])
RECURSIVE transfers_loop(_, _, _, _)
transfers_loop(path, i, previous_mode, transfers) ==
    IF i > Len(path) - 1 THEN transfers
    ELSE
      LET edge_info == get_edge_info(path[i], path[i + 1])
      IN IF ~edge_info.found
         THEN transfers_loop(path, i + 1, previous_mode, transfers)
         ELSE
           LET current_mode == edge_info.modo
               next_edge == IF i + 2 <= Len(path)
                            THEN get_edge_info(path[i + 1], path[i + 2])
                            ELSE NoEdge
               inc ==
                 IF previous_mode # "None" /\ current_mode # previous_mode
                 THEN IF previous_mode # "pe" /\ current_mode # "pe" THEN 1
                      ELSE IF previous_mode # "pe" /\ current_mode = "pe"
                      THEN IF /\ i + 2 <= Len(path)
                              /\ next_edge.found
                              /\ next_edge.modo # "pe"
                           THEN 1 ELSE 0
                      ELSE 0
                 ELSE 0
           IN transfers_loop(path, i + 1, current_mode, transfers + inc)

\* a count that starts as if a vehicle had been left before the first hop
calculate_transfers_boarded(path) ==
    IF Len(path) < 2 THEN 0 ELSE transfers_loop(path, 1, "metro", 0)

calculate_transfers(path) ==
    IF Len(path) < 2 THEN 0 ELSE transfers_loop(path, 1, "None", 0)

RECURSIVE segments_loop(_, _)
segments_loop(path, i) ==
    IF i > Len(path) - 1 THEN <<>>
    ELSE LET edge_info == get_edge_info(path[i], path[i + 1])
         IN IF ~edge_info.found THEN segments_loop(path, i + 1)
            ELSE <<[from |-> path[i], to |-> path[i + 1],
                    tempo_min |-> edge_info.tempo_min,
                    modo |-> edge_info.modo,
                    transferencia |-> edge_info.transferencia,
                    escada |-> edge_info.escada,
                    calcada_ruim |-> edge_info.calcada_ruim,
                    risco_alag |-> edge_info.risco_alag]>>
                 \o segments_loop(path, i + 1)

\* range(len(path) - 2): the last hop is left out
get_path_segments_short(path) ==
    segments_loop(SubSeq(path, 1, Len(path) - 1), 1)

get_path_segments(path) == segments_loop(path, 1)

\* a descriptor "kind@from->to" is modelled by the triple it is formatted from
RECURSIVE barriers_loop(_, _)
barriers_loop(segments, profile) ==
    IF segments = <<>> THEN <<>>
    ELSE LET segment == segments[1]
         IN (IF profile = "pcd" /\ segment.escada = 1
             THEN <<<<"escada", segment.from, segment.to>>>> ELSE <<>>)
            \o (IF profile = "pcd" /\ segment.calcada_ruim = 1
                THEN <<<<"calcada_ruim", segment.from, segment.to>>>> ELSE <<>>)
            \o (IF segment.risco_alag = 1
                THEN <<<<"alagamento", segment.from, segment.to>>>> ELSE <<>>)
            \o barriers_loop(Tail(segments), profile)

\* the profile test is lost: stairs and bad pavement are listed for everyone
identify_avoided_barriers_any_profile(path, profile) ==
    barriers_loop(get_path_segments(path), "pcd")

identify_avoided_barriers(path, profile) ==
    barriers_loop(get_path_segments(path), profile)

\* the record steps.append builds for a finished group
transport_step(step_mode, group) ==
    [type |-> "transport", mode |-> step_mode,
     from |-> group[1].from, to |-> group[Len(group)].to,
     time_min |-> SumSeq([k \in 1..Len(group) |-> group[k].tempo_min]),
     segments |-> group]

\* the grouping loop without the append of the last group after the loop
RECURSIVE steps_loop_no_flush(_, _, _, _, _)
steps_loop_no_flush(segments, i, current_mode, group, steps) ==
    IF i > Len(segments) THEN steps
    ELSE
      LET segment == segments[i]
          modo == segment.modo
          closes == current_mode # "None" /\ modo # current_mode
          steps1 == IF closes /\ group # <<>>
                    THEN Append(steps, transport_step(current_mode, group))
                    ELSE steps
          group1 == IF closes THEN <<>> ELSE group
          segment_data == [from |-> segment.from, to |-> segment.to,
                           tempo_min |-> segment.tempo_min, modo |-> modo]
      IN steps_loop_no_flush(segments, i + 1, modo,
                             Append(group1, segment_data), steps1)

\* the grouping loop of get_route_details over segments i..
RECURSIVE steps_loop(_, _, _, _, _)
steps_loop(segments, i, current_mode, group, steps) ==
    IF i > Len(segments)
    THEN IF group # <<>> THEN Append(steps, transport_step(current_mode, group))
         ELSE steps
    ELSE
      LET segment == segments[i]
          modo == segment.modo
          closes == current_mode # "None" /\ modo # current_mode
          steps1 == IF closes /\ group # <<>>
                    THEN Append(steps, transport_step(current_mode, group))
                    ELSE steps
          group1 == IF closes THEN <<>> ELSE group
          segment_data == [from |-> segment.from, to |-> segment.to,
                           tempo_min |-> segment.tempo_min, modo |-> modo]
      IN steps_loop(segments, i + 1, modo, Append(group1, segment_data), steps1)

\* _nodes_by_id.get(node_id) is not None
node_known(id) == \E i \in 1..Len(nodes) : nodes[i].id = id

get_route_details(path, cost, profile) ==
    IF Len(path) = 0
    THEN [path |-> <<>>, total_time_min |-> 0, transfers |-> 0,
          barriers_avoided |-> <<>>, steps |-> <<>>, modes |-> {}]
    ELSE
      LET segments == get_path_segments(path)
          transfers == calculate_transfers(path)
          barriers == identify_avoided_barriers(path, profile)
          steps == steps_loop(segments, 1, "None", <<>>, <<>>)
          start == [type |-> "walk", mode |-> "pe", from |-> path[1],
                    to |-> path[1], time_min |-> 0, segments |-> <<>>]
          steps1 == IF steps # <<>> /\ node_known(path[1])
                    THEN <<start>> \o steps ELSE steps
          total_time_min ==
              IF segments # <<>>
              THEN SumSeq([k \in 1..Len(segments) |-> segments[k].tempo_min])
              ELSE cost
      IN [path |-> path, total_time_min |-> total_time_min,
          transfers |-> transfers, barriers_avoided |-> barriers,
          steps |-> steps1,
          modes |-> {segments[k].modo : k \in 1..Len(segments)}]

----------------------------------------------------------------------------
(***************************************************************************)
(* Query facade (api/app/main.py).                                         *)
(***************************************************************************)
\* exceptions.py, handle_conneccity_exception: status_code_map
status_code(error_code) ==
    CASE error_code = "GRAPH_LOAD_ERROR" -> 500
      [] error_code = "NODE_NOT_FOUND" -> 404
      [] error_code = "ROUTE_NOT_FOUND" -> 422
      [] error_code = "INVALID_PROFILE" -> 400
      [] error_code = "VALIDATION_ERROR" -> 400
      [] error_code = "CORE_LIBRARY_ERROR" -> 500
      [] OTHER -> 500

NoDetails == [path |-> <<>>, total_time_min |-> 0, transfers |-> 0,
              barriers_avoided |-> <<>>, steps |-> <<>>, modes |-> {}]

\* found: the node ids a node search lists;
\* improvements: the list analyze_edge_improvements returns;
\* engine_ks: the k of each lib.k_shortest_yen call made; errors: length
\* of the list a validator of validators.py returned, -1 when none was called
NoResp == [status |-> 0, error_code |-> "", path |-> <<>>, cost |-> 0,
           routes |-> <<>>, alternatives |-> <<>>, details |-> NoDetails,
           engine_calls |-> 0, engine_ks |-> <<>>, errors |-> -1,
           found |-> <<>>, improvements |-> <<>>]

NoReq == [op |-> "none", from |-> "", to |-> "", perfil |-> "", chuva |-> FALSE,
          k |-> 0, path |-> <<>>, cost |-> 0]

\* a ConneccityException reaching conneccity_exception_handler: status is the
\* status of the HTTPException handle_conneccity_exception builds for it
Raise(error_code, calls) ==
    [NoResp EXCEPT !.status = status_code(error_code),
                   !.error_code = error_code, !.engine_calls = calls]

\* an HTTPException raised with the given status
HttpError(status, calls) ==
    [NoResp EXCEPT !.status = status, !.error_code = "HTTP",
                   !.engine_calls = calls]

\* str.lower() on the strings of the model
Lower(str) ==
    CASE str = "Estacao Hig-Mack" -> "estacao hig-mack"
      [] str = "Ponto R Consolacao" -> "ponto r consolacao"
      [] str = "Rampa Paulista" -> "rampa paulista"
      [] str = "RAMPA PAULISTA" -> "rampa paulista"
      [] str = "Terminal Pacaembu" -> "terminal pacaembu"
      [] str = "Entrada Hospital" -> "entrada hospital"
      [] str = "A" -> "a"
      [] str = "B" -> "b"
      [] str = "C" -> "c"
      [] str = "D" -> "d"
      [] str = "E" -> "e"
      [] str = "X" -> "x"
      [] str = "Rampa" -> "rampa"
      [] OTHER -> str

\* Pydantic's check of the request body: perfil is a Literal of three names
body_valid(r) == r.perfil \in {"padrao", "idoso", "pcd"}

\* POST /route without the test of an empty path: the empty route is
\* answered as a result
get_route_empty_ok(r) ==
    IF ~body_valid(r) THEN HttpError(422, 0)
    ELSE IF r.perfil \notin DOMAIN DEFAULT_WEIGHTS
    THEN Raise("INVALID_PROFILE", 0)
    ELSE
      LET s == idx(r.from)
          t == idx(r.to)
      IN IF s = -1 THEN Raise("NODE_NOT_FOUND", 0)
         ELSE IF t = -1 THEN Raise("NODE_NOT_FOUND", 0)
         ELSE
           LET params == _params(r.perfil, r.chuva)
           IN Only({[NoResp EXCEPT !.status = 200, !.path = b.path,
                                   !.cost = b.cost, !.engine_calls = 1] :
                    b \in {best(s, t, params)}})

\* POST /route
get_route(r) ==
    IF ~body_valid(r) THEN HttpError(422, 0)
    ELSE IF r.perfil \notin DOMAIN DEFAULT_WEIGHTS
    THEN Raise("INVALID_PROFILE", 0)
    ELSE
      LET s == idx(r.from)
          t == idx(r.to)
      IN IF s = -1 THEN Raise("NODE_NOT_FOUND", 0)
         ELSE IF t = -1 THEN Raise("NODE_NOT_FOUND", 0)
         ELSE
           LET params == _params(r.perfil, r.chuva)
           IN Only({IF b.path = <<>> THEN Raise("ROUTE_NOT_FOUND", 1)
                    ELSE [NoResp EXCEPT !.status = 200, !.path = b.path,
                                        !.cost = b.cost, !.engine_calls = 1] :
                    b \in {best(s, t, params)}})

\* Series.astype(str) on one name cell: NaN becomes the text 'nan'
astype_str(name) == IF name = NaN THEN "nan" ELSE name

\* nodes_df['name'] = nodes_df['name'].astype(str).fillna(''), in place
normalise_names(tbl) ==
    [k \in 1..Len(tbl) |-> [tbl[k] EXCEPT !.name = astype_str(tbl[k].name)]]

\* the name fallback comparing the names as they are written
by_name_exact_case(i, id, df) ==
    IF i # -1 \/ df = "None" THEN i
    ELSE LET match == {k \in 1..Len(nodes) : astype_str(nodes[k].name) = id}
         IN IF match = {} THEN i
            ELSE idx(nodes[CHOOSE k \in match : \A j \in match : k <= j].id)

\* the name fallback of get_alternatives: the index of the first row whose
\* lower-cased name is the lower-cased request id, when the table is loaded
by_name(i, id, df) ==
    IF i # -1 \/ df = "None" THEN i
    ELSE LET match == {k \in 1..Len(nodes) :
                          Lower(astype_str(nodes[k].name)) = Lower(id)}
         IN IF match = {} THEN i
            ELSE idx(nodes[CHOOSE k \in match : \A j \in match : k <= j].id)

\* the connectivity probes get_alternatives logs when no route is found:
\* engine.best calls made from test_idx i on, stopping at three reachable nodes
RECURSIVE probe_calls(_, _, _, _, _)
probe_calls(s, t, params, i, reached) ==
    IF i >= N \/ i >= 20 THEN 0
    ELSE IF i = s \/ i = t THEN probe_calls(s, t, params, i + 1, reached)
    ELSE LET hit == best(s, i, params).path # <<>>
         IN IF hit /\ reached + 1 >= 3 THEN 1
            ELSE 1 + probe_calls(s, t, params, i + 1,
                                 IF hit THEN reached + 1 ELSE reached)

\* one entry of the alternatives list (index i is 0-based)
build_alt(i, route, perfil, with_data) ==
    LET path_ids == [j \in 1..Len(route.path) |-> node_id(route.path[j])]
    IN IF with_data
       THEN Only({[id |-> i, tempo_total_min |-> details.total_time_min,
                   transferencias |-> details.transfers, path |-> path_ids,
                   barreiras_evitas |-> details.barriers_avoided,
                   modes |-> details.modes] :
                  details \in {get_route_details(path_ids, route.cost, perfil)}})
       ELSE [id |-> i, tempo_total_min |-> route.cost, transferencias |-> 0,
             path |-> path_ids, barreiras_evitas |-> <<>>, modes |-> {}]

\* POST /alternatives with the data frames in state ndf, edf; hybrid_ok: the
\* hybrid CSV files exist and load; load_ok: some CSV pair loads.  The result
\* carries the new nodes_df, edges_df.
get_alternatives_on(r, hybrid_ok, load_ok, ndf, edf) ==
    IF ~body_valid(r)
    THEN [resp |-> HttpError(422, 0), nodes |-> nodes,
          nodes_df |-> ndf, edges_df |-> edf]
    ELSE
      LET s0 == idx(r.from)
          t0 == idx(r.to)
          ndf1 == IF (s0 = -1 \/ t0 = -1) /\ ndf = "None" /\ hybrid_ok
                  THEN "loaded" ELSE ndf
          nodes1 == IF (s0 = -1 \/ t0 = -1) /\ ndf1 = "loaded"
                    THEN normalise_names(nodes) ELSE nodes
          s == by_name(s0, r.from, ndf1)
          t == by_name(t0, r.to, ndf1)
      IN IF s = -1 \/ t = -1
         THEN [resp |-> Raise("NODE_NOT_FOUND", 0),
               nodes |-> nodes1, nodes_df |-> ndf1, edges_df |-> edf]
         ELSE
           LET params == _params(r.perfil, r.chuva)
               loads == ndf1 = "None" \/ edf = "None"
               ok == ndf1 = "loaded" \/ load_ok
               ndf2 == IF loads THEN (IF ok THEN "loaded" ELSE "None")
                       ELSE ndf1
               edf2 == IF loads THEN (IF ok THEN "loaded" ELSE "None")
                       ELSE edf
               with_data == ndf2 = "loaded" /\ edf2 = "loaded"
           IN IF ~route_array_ok(r.k)
              THEN [resp |-> HttpError(500, 0),
                    nodes |-> nodes1, nodes_df |-> ndf1, edges_df |-> edf]
              ELSE Only({
                IF alternatives = <<>>
                THEN [resp |->
                        [Raise("ROUTE_NOT_FOUND",
                               2 + probe_calls(s, t, params, 0, 0))
                           EXCEPT !.engine_ks = <<r.k>>],
                      nodes |-> nodes1, nodes_df |-> ndf1, edges_df |-> edf]
                ELSE [resp |->
                        [NoResp EXCEPT
                           !.status = 200,
                           !.routes = alternatives,
                           !.alternatives =
                              [i \in 1..Len(alternatives) |->
                                 build_alt(i - 1, alternatives[i], r.perfil,
                                           with_data)],
                           !.engine_calls = 1,
                           !.engine_ks = <<r.k>>],
                      nodes |-> nodes1, nodes_df |-> ndf2, edges_df |-> edf2] :
                alternatives \in {k_alternatives(s, t, params, r.k)}})

\* POST /alternatives on the module's nodes_df, edges_df
get_alternatives(r, hybrid_ok, load_ok) ==
    get_alternatives_on(r, hybrid_ok, load_ok, nodes_df, edges_df)

\* the cost get_route_details sums for a client-supplied path
RECURSIVE client_cost(_, _)
client_cost(path, i) ==
    IF i > Len(path) - 1 THEN 0
    ELSE LET edge_info == get_edge_info(path[i], path[i + 1])
         IN (IF edge_info.found THEN edge_info.tempo_min ELSE 0)
            + client_cost(path, i + 1)

\* POST /route/details with the data frames in state ndf, edf; load_ok: the
\* primary CSV pair loads
route_details_on(r, load_ok, ndf, edf) ==
    IF ~body_valid(r)
    THEN [resp |-> HttpError(422, 0), nodes_df |-> ndf, edges_df |-> edf]
    ELSE
      LET loads == ndf = "None" \/ edf = "None"
          ok == ndf = "loaded" \/ load_ok
      IN IF loads /\ ~ok
         THEN [resp |-> HttpError(500, 0),
               nodes_df |-> ndf, edges_df |-> edf]
         ELSE
           LET s == idx(r.from)
               t == idx(r.to)
               params == _params(r.perfil, r.chuva)
               out ==
                 IF r.path = <<>>
                 THEN IF s = -1 \/ t = -1 THEN Raise("NODE_NOT_FOUND", 0)
                      ELSE Only({
                        IF b.path = <<>> THEN Raise("ROUTE_NOT_FOUND", 1)
                        ELSE LET path == [j \in 1..Len(b.path) |->
                                            node_id(b.path[j])]
                             IN [NoResp EXCEPT
                                   !.status = 200, !.path = path,
                                   !.details = get_route_details(path, b.cost,
                                                                 r.perfil),
                                   !.engine_calls = 1] :
                        b \in {best(s, t, params)}})
                 ELSE [NoResp EXCEPT
                         !.status = 200, !.path = r.path,
                         !.details = get_route_details(r.path,
                                        client_cost(r.path, 1), r.perfil)]
           IN [resp |-> out, nodes_df |-> "loaded", edges_df |-> "loaded"]

\* POST /route/details on the module's nodes_df, edges_df
route_details(r, load_ok) == route_details_on(r, load_ok, nodes_df, edges_df)

\* str.contains(q) on the lower-cased strings of the model
Contains(str, q) ==
    CASE q = "a" -> str \in {"a", "nan", "estacao hig-mack", "ponto r consolacao",
                             "rampa paulista", "terminal pacaembu",
                             "entrada hospital"}
      [] q = "rampa" -> str = "rampa paulista"
      [] q = "nan" -> str = "nan"
      [] OTHER -> str = q

\* GET /nodes/search?q=...; load_ok: the primary CSV pair loads
search_nodes(q, load_ok) ==
    IF nodes_df = "None" /\ ~load_ok
    THEN [resp |-> HttpError(500, 0), nodes |-> nodes,
          nodes_df |-> nodes_df, edges_df |-> edges_df]
    ELSE
      LET tbl == normalise_names(nodes)
          query_lower == Lower(q)
          matches == SelectSeq(tbl, LAMBDA row :
                        \/ Contains(Lower(row.name), query_lower)
                        \/ Contains(Lower(row.id), query_lower))
          head == SubSeq(matches, 1, IF Len(matches) < 20 THEN Len(matches)
                                     ELSE 20)
      IN [resp |-> [NoResp EXCEPT !.status = 200,
                                  !.found = [k \in 1..Len(head) |-> head[k].id]],
          nodes |-> tbl,
          nodes_df |-> "loaded",
          edges_df |-> IF nodes_df = "None" THEN "loaded" ELSE edges_df]

----------------------------------------------------------------------------
(***************************************************************************)
(* Request validators (api/app/validators.py).                             *)
(***************************************************************************)
\* re.match(r'^[A-Za-z0-9_-]+$', v) on the strings of the model
id_pattern(v) ==
    CASE v = "" -> FALSE
      [] v = "RAMPA PAULISTA" -> FALSE
      [] OTHER -> TRUE

\* RouteRequestValidator.validate_node_ids, after the Field length limits
validate_node_ids(v) == Len(v) >= 1 /\ Len(v) <= 16 /\ id_pattern(v)

\* RouteRequestValidator.validate_profile, after the Field pattern
validate_profile(v) == v \in {"padrao", "pcd"}

\* RouteRequestValidator(**request_data) constructs without an exception
RouteRequestValidator(r) ==
    /\ validate_node_ids(r.from)
    /\ validate_node_ids(r.to)
    /\ validate_profile(r.perfil)
    /\ r.k >= 1 /\ r.k <= 10

\* validate_route_request: the number of errors in the list it returns
validate_route_request(r) == IF RouteRequestValidator(r) THEN 0 ELSE 1

----------------------------------------------------------------------------
(***************************************************************************)
(* The facade as a state machine: one request is answered at a time.       *)
(***************************************************************************)
\* edge tables of the model: the rows of EdgePool at the chosen positions
\* (no edge, single paths, the sample graph, cycles, the whole pool)
KeepSets == {{}, {1}, {1, 2}, {2, 5, 6}, {1, 2, 3, 6}, {1, 3, 6, 8},
             {1, 3, 6, 8, 10}, {3, 4, 5, 9, 11}, {1, 2, 8, 9, 10, 11},
             1..7, 1..9, 1..Len(EdgePool)}
            \cup {(1..Len(EdgePool)) \ {i} : i \in 1..Len(EdgePool)}

EdgeTables == {SubTable(EdgePool, keep, 1) : keep \in KeepSets}

NodeIds == {NodeTable[i].id : i \in 1..Len(NodeTable)}

\* ids a request may name: the node ids, an unknown id, a node's name
RequestIds == NodeIds \cup {"X", "RAMPA PAULISTA"}

ClientPaths == {<<"A", "C", "E">>, <<"A", "E">>, <<"X", "A", "B">>, <<"C">>}

\* every path of at most MaxPathLen node ids
PathIds == NodeIds
RECURSIVE PathsUpTo(_)
PathsUpTo(n) ==
    IF n = 1 THEN {<<x>> : x \in PathIds}
    ELSE LET shorter == PathsUpTo(n - 1)
         IN shorter \cup {Append(q, x) : q \in shorter, x \in PathIds}

AllClientPaths == PathsUpTo(MaxPathLen)

Request(op, from, to, perfil, chuva, k, path) ==
    [op |-> op, from |-> from, to |-> to, perfil |-> perfil, chuva |-> chuva,
     k |-> k, path |-> path, cost |-> 0]

\* the request bodies of the model; one body names a profile that is not in
\* the table
Requests(op, ks, paths) ==
    {Request(op, from, to, perfil, chuva, k, <<>>) :
        from \in RequestIds, to \in RequestIds, perfil \in Perfis,
        chuva \in BOOLEAN, k \in ks}
    \cup {Request(op, "", "", perfil, chuva, 1, path) :
        perfil \in Perfis, chuva \in BOOLEAN, path \in paths}
    \cup {Request(op, "A", "E", "invalido", FALSE, 1, <<>>)}

RouteRequests == Requests("route", {1}, {})
\* k is an unconstrained int of the request body
AlternativesRequests == Requests("alternatives", (-1)..MaxK, {})
RouteDetailsRequests == Requests("route_details", {1}, ClientPaths)

\* the tables at start-up: the sample nodes with every edge table, and the
\* nodes with a nameless row with the sample edges and with the whole pool
InitTables ==
    {<<NodeTable, e>> : e \in EdgeTables}
    \cup {<<NamelessTable, SubTable(EdgePool, 1..7, 1)>>,
          <<NamelessTable, EdgePool>>}

Init ==
    /\ \E tb \in InitTables : nodes = tb[1] /\ edges = tb[2]
    /\ \E df \in {"None", "loaded"} : nodes_df = df /\ edges_df = df
    /\ req = NoReq
    /\ resp = NoResp
    /\ CacheConstructed /\ FfiConstructed
    /\ PipelineConstructed /\ StreamerConstructed

Route ==
    /\ resp = NoResp
    /\ \E r \in RouteRequests :
         /\ req' = r
         /\ resp' = get_route(r)
    /\ UNCHANGED <<nodes, edges, nodes_df, edges_df>>
    /\ UNCHANGED <<cache_vars, ffi_vars, pipeline_vars, stream_vars>>

Alternatives ==
    /\ resp = NoResp
    /\ \E r \in AlternativesRequests :
         \E hybrid_ok \in (IF /\ nodes_df = "None"
                              /\ (idx(r.from) = -1 \/ idx(r.to) = -1)
                           THEN BOOLEAN ELSE {FALSE}),
            load_ok \in (IF nodes_df = "None" THEN BOOLEAN ELSE {TRUE}) :
           \E out \in {get_alternatives(r, hybrid_ok, load_ok)} :
              /\ req' = r
              /\ resp' = out.resp
              /\ nodes' = out.nodes
              /\ nodes_df' = out.nodes_df
              /\ edges_df' = out.edges_df
    /\ UNCHANGED edges
    /\ UNCHANGED <<cache_vars, ffi_vars, pipeline_vars, stream_vars>>

RouteDetailsOf(requests) ==
    /\ resp = NoResp
    /\ \E r \in requests :
         \E load_ok \in (IF nodes_df = "None" \/ edges_df = "None"
                         THEN BOOLEAN ELSE {TRUE}) :
           \E out \in {route_details(r, load_ok)} :
              /\ req' = r
              /\ resp' = out.resp
              /\ nodes_df' = out.nodes_df
              /\ edges_df' = out.edges_df
    /\ UNCHANGED <<nodes, edges>>
    /\ UNCHANGED <<cache_vars, ffi_vars, pipeline_vars, stream_vars>>

\* the response is sent; the facade is ready for the next request
Reply ==
    /\ resp # NoResp
    /\ req' = NoReq
    /\ resp' = NoResp
    /\ UNCHANGED <<nodes, edges, nodes_df, edges_df>>
    /\ UNCHANGED <<cache_vars, ffi_vars, pipeline_vars, stream_vars>>

RouteDetails == RouteDetailsOf(RouteDetailsRequests)

\* the requests handed to validate_route_request
ValidatorRequests ==
    {Request("validate_route_request", from, "E", perfil, chuva, k, <<>>) :
        from \in {"A", "X", "RAMPA PAULISTA", ""},
        perfil \in Perfis \cup {"invalido"}, chuva \in BOOLEAN,
        k \in {0, 1, 10, 11}}

\* validate_route_request(from_id, to_id, perfil, chuva, k)
ValidateRouteRequest ==
    /\ resp = NoResp
    /\ \E r \in ValidatorRequests :
         /\ req' = r
         /\ resp' = [NoResp EXCEPT !.errors = validate_route_request(r)]
    /\ UNCHANGED <<nodes, edges, nodes_df, edges_df>>
    /\ UNCHANGED <<cache_vars, ffi_vars, pipeline_vars, stream_vars>>

\* the search terms of the model
SearchTerms == {"a", "Rampa", "nan", "zz"}

SearchNodes ==
    /\ resp = NoResp
    /\ \E q \in SearchTerms :
         \E load_ok \in (IF nodes_df = "None" THEN BOOLEAN ELSE {TRUE}) :
           \E out \in {search_nodes(q, load_ok)} :
              /\ req' = [NoReq EXCEPT !.op = "search_nodes", !.from = q]
              /\ resp' = out.resp
              /\ nodes' = out.nodes
              /\ nodes_df' = out.nodes_df
              /\ edges_df' = out.edges_df
    /\ UNCHANGED edges
    /\ UNCHANGED <<cache_vars, ffi_vars, pipeline_vars, stream_vars>>

Next ==
    \/ Route
    \/ Alternatives
    \/ RouteDetails
    \/ SearchNodes
    \/ ValidateRouteRequest
    \/ Reply

Spec == Init /\ [][Next]_vars

(***************************************************************************)
(* The itinerary builder on every path of at most MaxPathLen nodes: called *)
(* by POST /route/details on a client-supplied path, and called directly   *)
(* with a cost, as get_alternatives calls it with the engine's cost.       *)
(***************************************************************************)
ItineraryRequests ==
    {Request("route_details", "", "", pf, ch, 1, cp) :
        pf \in {"padrao", "pcd"}, ch \in BOOLEAN, cp \in AllClientPaths}

\* the costs passed to a direct call
DirectCosts == {7}

DirectRequests ==
    {[Request("get_route_details", "", "", "padrao", FALSE, 1, cp)
        EXCEPT !.cost = c] : c \in DirectCosts, cp \in AllClientPaths}

InitItinerary ==
    /\ nodes = NodeTable
    /\ edges = EdgePool
    /\ nodes_df = "loaded"
    /\ edges_df = "loaded"
    /\ req = NoReq
    /\ resp = NoResp
    /\ CacheConstructed /\ FfiConstructed
    /\ PipelineConstructed /\ StreamerConstructed

ClientItinerary == RouteDetailsOf(ItineraryRequests)

\* build_route_details(path, cost, edges_df, nodes_df, perfil)
BuildDetails ==
    /\ resp = NoResp
    /\ \E r \in DirectRequests :
         /\ req' = r
         /\ resp' = [NoResp EXCEPT
                       !.status = 200, !.path = r.path,
                       !.details = get_route_details(r.path, r.cost, r.perfil)]
    /\ UNCHANGED <<nodes, edges, nodes_df, edges_df>>
    /\ UNCHANGED <<cache_vars, ffi_vars, pipeline_vars, stream_vars>>

NextItinerary == ClientItinerary \/ BuildDetails \/ Reply

SpecItinerary == InitItinerary /\ [][NextItinerary]_vars

----------------------------------------------------------------------------
(***************************************************************************)
(* Reference definitions of the properties: walks of the edge table and    *)
(* their costs, computed from the rows rather than by the engine.          *)
(***************************************************************************)
MaxWalk == 5    \* most edges of a walk the properties enumerate

\* the arcs of the table as <<from index, to index, cost under p>>
RowArcs(p) ==
    {<<idx(edges[i].from), idx(edges[i].to), edge_cost(edges[i], p)>> :
        i \in 1..Len(edges)}

\* the walks of at most n edges that start at s
RECURSIVE WalksFrom(_, _, _)
WalksFrom(g, s, n) ==
    IF n = 0 THEN {<<s>>}
    ELSE LET W == WalksFrom(g, s, n - 1)
         IN W \cup UNION {{Append(w, a[2]) : a \in {b \in g : b[1] = w[Len(w)]}} :
                            w \in W}

\* cost of walk w: each hop takes its cheapest parallel arc
RECURSIVE WalkCost(_, _)
WalkCost(g, w) ==
    IF Len(w) < 2 THEN 0
    ELSE LET cs == {a[3] : a \in {b \in g : b[1] = w[1] /\ b[2] = w[2]}}
         IN (CHOOSE c \in cs : \A d \in cs : c <= d) + WalkCost(g, Tail(w))

\* the walks from s to t of at most MaxWalk edges
WalksTo(g, s, t) == {w \in WalksFrom(g, s, MaxWalk) : w[Len(w)] = t}

Loopless(path) == \A i, j \in 1..Len(path) : path[i] = path[j] => i = j

\* a POST /route request whose two ids are node ids has been answered
RouteAnswered ==
    /\ req.op = "route"
    /\ body_valid(req)
    /\ idx(req.from) # -1
    /\ idx(req.to) # -1

AlternativesAnswered == req.op = "alternatives" /\ resp.status = 200

----------------------------------------------------------------------------
(***************************************************************************)
(* Properties of the engine results, as the facade returns them.           *)
(***************************************************************************)
\* C1: whenever t is reachable from s, the shortest-path query returns a
\* path from s to t whose cost is its summed edge cost and is no greater
\* than the cost of any other path from s to t under the same parameters.
C1_ShortestIsMinimal ==
    RouteAnswered =>
      LET g == RowArcs(_params(req.perfil, req.chuva))
          s == idx(req.from)
          t == idx(req.to)
          W == WalksTo(g, s, t)
      IN W # {} =>
           /\ resp.status = 200
           /\ resp.path \in W
           /\ resp.cost = WalkCost(g, resp.path)
           /\ \A w \in W : resp.cost <= WalkCost(g, w)

\* a route of three or more nodes was returned although a walk with fewer
\* edges, and strictly costlier walks, lead to the same target
C1_Witness ==
    /\ RouteAnswered
    /\ resp.status = 200
    /\ Len(resp.path) >= 3
    /\ LET g == RowArcs(_params(req.perfil, req.chuva))
           W == WalksTo(g, idx(req.from), idx(req.to))
       IN /\ \E w \in W : Len(w) < Len(resp.path)
          /\ \E w \in W : WalkCost(g, w) > resp.cost

\* C2: no route returned by the alternatives query visits a node twice.
C2_AlternativesLoopless ==
    AlternativesAnswered =>
      \A i \in 1..Len(resp.routes) :
         /\ Loopless(resp.routes[i].path)
         /\ Loopless(resp.alternatives[i].path)

\* fewer than k routes came back although walks that revisit a node lead
\* from the origin to the target
C2_Witness ==
    /\ AlternativesAnswered
    /\ Len(resp.routes) >= 2
    /\ Len(resp.routes) < req.k
    /\ LET first == resp.routes[1].path
           g == RowArcs(_params(req.perfil, req.chuva))
       IN \E w \in WalksTo(g, first[1], first[Len(first)]) : ~Loopless(w)

\* C3: the routes of the alternatives query are in non-decreasing order of
\* cost, each cost being the summed edge cost of its path, and the first
\* route is the one the shortest-path query returns for the same endpoints.
C3_AlternativesOrdered ==
    AlternativesAnswered =>
      LET p == _params(req.perfil, req.chuva)
          g == RowArcs(p)
          n == Len(resp.routes)
          first == resp.routes[1].path
      IN /\ \A i \in 1..n : resp.routes[i].cost = WalkCost(g, resp.routes[i].path)
         /\ \A i \in 1..(n - 1) : resp.routes[i].cost <= resp.routes[i + 1].cost
         /\ resp.routes[1] = best(first[1], first[Len(first)], p)
         /\ idx(req.from) # -1 => first[1] = idx(req.from)
         /\ idx(req.to) # -1 => first[Len(first)] = idx(req.to)

\* three routes came back, with a strict rise in cost and a tie in cost
C3_Witness ==
    /\ AlternativesAnswered
    /\ Len(resp.routes) = 3
    /\ \E i, j \in 1..2 :
          /\ resp.routes[i].cost < resp.routes[i + 1].cost
          /\ resp.routes[j].cost = resp.routes[j + 1].cost

\* C4: the routes of the alternatives query are pairwise distinct paths.
C4_AlternativesDistinct ==
    AlternativesAnswered =>
      \A i, j \in 1..Len(resp.routes) :
         i # j => /\ resp.routes[i].path # resp.routes[j].path
                  /\ resp.alternatives[i].path # resp.alternatives[j].path

\* three routes came back that all start with the same first hop
C4_Witness ==
    /\ AlternativesAnswered
    /\ Len(resp.routes) = 3
    /\ \A i \in 1..3 : /\ Len(resp.routes[i].path) >= 3
                       /\ resp.routes[i].path[2] = resp.routes[1].path[2]

----------------------------------------------------------------------------
(***************************************************************************)
(* Reference definitions of the itinerary properties: the hops of a path,  *)
(* read from the edge table hop by hop.                                    *)
(***************************************************************************)
Hop(path, i) == get_edge_info(path[i], path[i + 1])

\* the hops of the path that are edges of the table
FoundHops(path) == {i \in 1..(Len(path) - 1) : Hop(path, i).found}

AllHopsFound(path) == FoundHops(path) = 1..(Len(path) - 1)

\* the nearest edge of the path before hop i, 0 when there is none
PrevHop(path, i) ==
    LET before == {j \in FoundHops(path) : j < i}
    IN IF before = {} THEN 0 ELSE CHOOSE j \in before : \A q \in before : q <= j

\* the modes of the path's edges, in path order
RECURSIVE HopModes(_, _)
HopModes(path, i) ==
    IF i > Len(path) - 1 THEN <<>>
    ELSE LET h == Hop(path, i)
         IN (IF h.found THEN <<h.modo>> ELSE <<>>) \o HopModes(path, i + 1)

\* summed tempo_min of the path's edges
RECURSIVE HopTime(_, _)
HopTime(path, i) ==
    IF i > Len(path) - 1 THEN 0
    ELSE LET h == Hop(path, i)
         IN (IF h.found THEN h.tempo_min ELSE 0) + HopTime(path, i + 1)

\* get_route_details has answered for a non-empty path
ItineraryBuilt ==
    /\ req.op \in {"route_details", "get_route_details"}
    /\ req.path # <<>>
    /\ resp.status = 200

\* the cost get_route_details was called with
PassedCost == IF req.op = "get_route_details" THEN req.cost
              ELSE HopTime(req.path, 1)

----------------------------------------------------------------------------
(***************************************************************************)
(* Properties of the itinerary.                                            *)
(***************************************************************************)
\* the hops at which the count goes up when "a subsequent edge" is any
\* later edge of the path
TransfersAnyLater(path) ==
    {i \in FoundHops(path) :
       LET j == PrevHop(path, i)
       IN /\ j # 0
          /\ Hop(path, j).modo # Hop(path, i).modo
          /\ Hop(path, j).modo # "pe"
          /\ \/ Hop(path, i).modo # "pe"
             \/ \E q \in FoundHops(path) : q > i /\ Hop(path, q).modo # "pe"}

\* the hops at which the count goes up when the edge that switches back is
\* the hop right after the walk edge
TransfersNextHop(path) ==
    {i \in FoundHops(path) :
       LET j == PrevHop(path, i)
       IN /\ j # 0
          /\ Hop(path, j).modo # Hop(path, i).modo
          /\ Hop(path, j).modo # "pe"
          /\ \/ Hop(path, i).modo # "pe"
             \/ /\ i + 1 \in FoundHops(path)
                /\ Hop(path, i + 1).modo # "pe"}

\* C5 as stated, on paths whose hops are all edges: the transfer count adds
\* one exactly when (a) the mode goes from a non-walk mode to a different
\* non-walk mode, or (b) it goes from a non-walk mode to walk and some
\* subsequent edge is non-walk again.
C5_TransfersAnyLaterEdge ==
    (ItineraryBuilt /\ AllHopsFound(req.path)) =>
      resp.details.transfers = Cardinality(TransfersAnyLater(req.path))

\* what calculate_transfers computes instead: one is added exactly when
\* the mode of an edge differs from the mode of the previous edge of the
\* path, that previous mode is not walk, and either (a) the new mode is not
\* walk, or (b) the new mode is walk and the hop right after it is an edge
\* of a non-walk mode; so a walk-only path has 0 transfers, bus-walk-bus
\* has 1 and bus-walk-walk has 0.
TransfersLookOneHopAhead ==
    ItineraryBuilt =>
      LET modos == HopModes(req.path, 1)
          transfers == resp.details.transfers
      IN /\ transfers = Cardinality(TransfersNextHop(req.path))
         /\ Range(modos) \subseteq {"pe"} => transfers = 0
         /\ AllHopsFound(req.path) =>
              /\ modos = <<"onibus", "pe", "onibus">> => transfers = 1
              /\ modos = <<"onibus", "pe", "pe">> => transfers = 0

\* bus, walk, walk, metro along edges of the table: no transfer is counted
C5_Witness ==
    /\ ItineraryBuilt
    /\ AllHopsFound(req.path)
    /\ HopModes(req.path, 1) = <<"onibus", "pe", "pe", "metro">>
    /\ resp.details.transfers = 0

\* C6 as stated: for every non-empty path total_time_min is the sum of
\* tempo_min over the edges between consecutive nodes, whatever cost is
\* passed in.
C6_TotalTimeIsEdgeTime ==
    ItineraryBuilt => resp.details.total_time_min = HopTime(req.path, 1)

\* C6, amended: when some consecutive pair of the path is an edge of the
\* table, total_time_min is the sum of tempo_min over those edges, whatever
\* cost is passed in; when none is (a single-node path included),
\* total_time_min is the cost passed in.
C6_TotalTimeOrCost ==
    ItineraryBuilt =>
      resp.details.total_time_min =
         IF FoundHops(req.path) # {} THEN HopTime(req.path, 1) ELSE PassedCost

\* a direct call on a path of several edges: the time differs from the cost
C6_Witness ==
    /\ ItineraryBuilt
    /\ req.op = "get_route_details"
    /\ Cardinality(FoundHops(req.path)) >= 3
    /\ resp.details.total_time_min # req.cost
    /\ resp.details.total_time_min = HopTime(req.path, 1)

\* descriptor kind is listed for hop i of the path under the profile
BarrierOf(path, i, kind, perfil, flood) ==
    LET h == Hop(path, i)
    IN /\ h.found
       /\ \/ kind = "escada" /\ perfil = "pcd" /\ h.escada = 1
          \/ kind = "calcada_ruim" /\ perfil = "pcd" /\ h.calcada_ruim = 1
          \/ kind = "alagamento" /\ flood /\ h.risco_alag = 1

BarrierKinds == {"escada", "calcada_ruim", "alagamento"}

\* the descriptors of the flagged hops: flood tells whether flood-risk edges
\* are listed
Descriptors(path, perfil, flood) ==
    {<<kind, path[i], path[i + 1]>> :
        <<kind, i>> \in {x \in BarrierKinds \X (1..(Len(path) - 1)) :
                            BarrierOf(path, x[2], x[1], perfil, flood)}}

\* C7 as stated: avoided_barriers is the deduplicated set of descriptors of
\* the path edges relevant to the query: stairs and bad pavement if and only
\* if the profile is PcD, flood risk if and only if rain is on.
C7_BarriersFollowProfileAndRain ==
    (ItineraryBuilt /\ req.op = "route_details") =>
      LET listed == resp.details.barriers_avoided
      IN /\ Range(listed) = Descriptors(req.path, req.perfil, req.chuva)
         /\ \A i, j \in 1..Len(listed) : listed[i] = listed[j] => i = j

\* C7, amended: avoided_barriers holds one descriptor for each traversal of
\* a flagged path edge, without deduplication: stairs and bad pavement if
\* and only if the profile is PcD, flood risk always, whether or not rain is
\* on.
C7_BarriersFollowProfileOnly ==
    (ItineraryBuilt /\ req.op = "route_details") =>
      LET listed == resp.details.barriers_avoided
          path == req.path
      IN /\ Range(listed) = Descriptors(path, req.perfil, TRUE)
         /\ \A d \in Range(listed) :
               Cardinality({k \in 1..Len(listed) : listed[k] = d})
                 = Cardinality({i \in 1..(Len(path) - 1) :
                      /\ <<path[i], path[i + 1]>> = <<d[2], d[3]>>
                      /\ BarrierOf(path, i, d[1], req.perfil, TRUE)})

\* without rain and for the default profile, a flood-risk edge that the path
\* takes twice is listed twice, next to stairs that are not listed
C7_Witness ==
    /\ ItineraryBuilt
    /\ req.op = "route_details"
    /\ ~req.chuva
    /\ req.perfil = "padrao"
    /\ \E i \in FoundHops(req.path) : Hop(req.path, i).escada = 1
    /\ \E i, j \in 1..Len(resp.details.barriers_avoided) :
          /\ i # j
          /\ resp.details.barriers_avoided[i] = resp.details.barriers_avoided[j]
          /\ resp.details.barriers_avoided[i][1] = "alagamento"

\* the transport step groups: the steps without the zero-time start step
Groups == SelectSeq(resp.details.steps, LAMBDA st : st.type = "transport")

\* the segments of all groups, in order
RECURSIVE GroupSegments(_)
GroupSegments(groups) ==
    IF groups = <<>> THEN <<>>
    ELSE groups[1].segments \o GroupSegments(Tail(groups))

\* the edges of the path as segments, in path order
RECURSIVE HopSegments(_, _)
HopSegments(path, i) ==
    IF i > Len(path) - 1 THEN <<>>
    ELSE LET h == Hop(path, i)
         IN (IF h.found
             THEN <<[from |-> path[i], to |-> path[i + 1],
                     tempo_min |-> h.tempo_min, modo |-> h.modo]>>
             ELSE <<>>)
            \o HopSegments(path, i + 1)

\* run-length encoding by mode, apart from where a group starts
GroupsEncodeRuns ==
    /\ GroupSegments(Groups) = HopSegments(req.path, 1)
    /\ \A k \in 1..Len(Groups) :
          LET g == Groups[k]
          IN /\ g.segments # <<>>
             /\ \A q \in 1..Len(g.segments) : g.segments[q].modo = g.mode
             /\ g.from = g.segments[1].from
             /\ g.to = g.segments[Len(g.segments)].to
             /\ g.time_min = SumSeq([q \in 1..Len(g.segments) |->
                                        g.segments[q].tempo_min])
    /\ \A k \in 1..(Len(Groups) - 1) : Groups[k].mode # Groups[k + 1].mode

GroupsChain == \A k \in 1..(Len(Groups) - 1) : Groups[k + 1].from = Groups[k].to

\* C8 as stated: the transport step groups are the run-length encoding of
\* the path's edges by mode: they cover every edge once and in order, each
\* is a maximal run of one mode, each starts where the previous one ends,
\* and each group's time is the sum of its segments' times.
C8_GroupsEncodeAndChain ==
    ItineraryBuilt => GroupsEncodeRuns /\ GroupsChain

\* C8, amended: the same, except that each group starts where the previous
\* one ends when every consecutive pair of path nodes is an edge of the
\* table; pairs that are not edges are skipped.
C8_GroupsEncodeChainOnEdges ==
    ItineraryBuilt =>
      /\ GroupsEncodeRuns
      /\ AllHopsFound(req.path) => GroupsChain

\* three groups after the start step, one of them of two edges
C8_Witness ==
    /\ ItineraryBuilt
    /\ AllHopsFound(req.path)
    /\ Len(Groups) = 3
    /\ Len(resp.details.steps) = 4
    /\ \E k \in 1..3 : Len(Groups[k].segments) = 2

----------------------------------------------------------------------------
(***************************************************************************)
(* Properties of the failures of the facade.                               *)
(***************************************************************************)
\* no walk of the edge table leads from the origin to the target
Unreachable ==
    WalksTo(RowArcs(_params(req.perfil, req.chuva)),
            idx(req.from), idx(req.to)) = {}

\* C9 as stated: when the target is not reachable from the source, the
\* route query returns the empty route (empty path, cost 0) as a normal
\* result; it is not reported as an error.
C9_UnreachableIsEmptyResult ==
    (RouteAnswered /\ Unreachable) =>
      /\ resp.status = 200
      /\ resp.error_code = ""
      /\ resp.path = <<>>
      /\ resp.cost = 0

\* C9, amended: when the target is not reachable from the source, the engine
\* wrapper returns the empty route (empty path, cost 0) as a value, and the
\* route query reports it as an error after that one engine call: a
\* RouteNotFoundException (error code ROUTE_NOT_FOUND, which
\* handle_conneccity_exception maps to status 422), no path.
C9_UnreachableIsRouteNotFound ==
    (RouteAnswered /\ Unreachable) =>
      /\ best(idx(req.from), idx(req.to), _params(req.perfil, req.chuva))
           = [path |-> <<>>, cost |-> 0]
      /\ resp.status = 422
      /\ resp.error_code = "ROUTE_NOT_FOUND"
      /\ resp.path = <<>>
      /\ resp.engine_calls = 1

\* a query between two different nodes of a graph without edges
C9_Witness ==
    /\ RouteAnswered
    /\ edges = <<>>
    /\ req.from # req.to
    /\ resp.error_code = "ROUTE_NOT_FOUND"

\* a query without client path whose from id or to id is no node id
UnknownIdQuery ==
    /\ req.op \in {"route", "alternatives", "route_details"}
    /\ body_valid(req)
    /\ req.path = <<>>
    /\ idx(req.from) = -1 \/ idx(req.to) = -1

NodeNotFound ==
    /\ resp.status = 404
    /\ resp.error_code = "NODE_NOT_FOUND"
    /\ resp.engine_calls = 0

\* id is a node id, or the name of a node up to letter case
NameResolves(id) ==
    \/ idx(id) # -1
    \/ \E k \in 1..Len(nodes) : Lower(nodes[k].name) = Lower(id)

----------------------------------------------------------------------------
(***************************************************************************)
(* Properties of request validation.                                       *)
(***************************************************************************)
\* the request was turned down because of its profile, before any query
ProfileRejected ==
    /\ resp.engine_calls = 0
    /\ \/ resp.error_code = "INVALID_PROFILE"
       \/ resp.error_code = "HTTP" /\ resp.status = 422
       \/ resp.errors > 0

\* the other fields of a validated request are well-formed
ValidatorFieldsFine ==
    /\ validate_node_ids(req.from)
    /\ validate_node_ids(req.to)
    /\ req.k \in 1..10

\* C11 as stated: at every entry point (route, alternatives, route_details,
\* validate_route_request) the recognised profiles are exactly the keys of
\* the coefficient table: a request naming one of them is not turned down
\* for its profile, a request naming any other profile is rejected before
\* any query runs.
C11_ProfilesAreTableKeys ==
    /\ (req.op \in {"route", "alternatives", "route_details"}) =>
          (ProfileRejected <=> req.perfil \notin DOMAIN DEFAULT_WEIGHTS)
    /\ (req.op = "validate_route_request" /\ ValidatorFieldsFine) =>
          (ProfileRejected <=> req.perfil \notin DOMAIN DEFAULT_WEIGHTS)

\* what the code does: the facade recognises the three keys of the table,
\* validate_route_request recognises padrao and pcd only
ProfilesAtFacadeAndValidator ==
    /\ (req.op \in {"route", "alternatives", "route_details"}) =>
          (ProfileRejected <=> req.perfil \notin {"padrao", "idoso", "pcd"})
    /\ (req.op = "validate_route_request" /\ ValidatorFieldsFine) =>
          (ProfileRejected <=> req.perfil \notin {"padrao", "pcd"})

\* validate_route_request returned an error for an otherwise well-formed
\* request of the elderly profile
C11_Witness ==
    /\ req.op = "validate_route_request"
    /\ ValidatorFieldsFine
    /\ req.perfil = "idoso"
    /\ resp.errors = 1

\* C12 as stated: the alternatives query clamps the requested k to [1, 3]
\* before it calls the k-shortest engine, so the engine is called with a k
\* in 1..3 and at most 3 and at most k alternatives are returned.
C12_KClampedToThree ==
    req.op = "alternatives" =>
      /\ \A i \in 1..Len(resp.engine_ks) : resp.engine_ks[i] \in 1..3
      /\ Len(resp.alternatives) <= 3
      /\ resp.status = 200 => Len(resp.alternatives) <= req.k

\* what the code does: the engine is called with the k of the request, and
\* at most k alternatives are returned
KPassedUnclamped ==
    req.op = "alternatives" =>
      /\ \A i \in 1..Len(resp.engine_ks) : resp.engine_ks[i] = req.k
      /\ resp.status = 200 => Len(resp.alternatives) <= req.k

\* a request with k = 4 was answered with four alternatives
C12_Witness ==
    /\ req.op = "alternatives"
    /\ req.k = 4
    /\ resp.status = 200
    /\ resp.engine_ks = <<4>>
    /\ Len(resp.alternatives) = 4

----------------------------------------------------------------------------
(***************************************************************************)
(* Properties of the cost model.                                           *)
(***************************************************************************)
\* the costs of the prefixes of a node-index path never decrease
PrefixCostsRise(g, path) ==
    \A j \in 1..(Len(path) - 1) :
       /\ path_cost(g, SubSeq(path, 1, j)) >= 0
       /\ path_cost(g, SubSeq(path, 1, j)) <= path_cost(g, SubSeq(path, 1, j + 1))

\* C13: for every edge of the table, every profile of the coefficient table
\* and both rain settings the edge cost is non-negative; the cost of every
\* returned path is non-negative, is its summed edge cost, and never
\* decreases from one prefix of the path to the next.
C13_CostsNonNegative ==
    /\ \A i \in 1..Len(edges) : \A pf \in DOMAIN DEFAULT_WEIGHTS : \A ch \in BOOLEAN :
          edge_cost(edges[i], _params(pf, ch)) >= 0
    /\ (req.op \in {"route", "alternatives"} /\ resp.status = 200) =>
          LET g == cost_arcs(_params(req.perfil, req.chuva))
              found == IF req.op = "route"
                       THEN <<[path |-> resp.path, cost |-> resp.cost]>>
                       ELSE resp.routes
          IN \A i \in 1..Len(found) :
                /\ found[i].cost >= 0
                /\ found[i].cost = path_cost(g, found[i].path)
                /\ PrefixCostsRise(g, found[i].path)

\* a PcD route in the rain over a flood-risk edge and a transfer edge: its
\* cost exceeds alpha times its travel time
C13_Witness ==
    /\ req.op = "route"
    /\ resp.status = 200
    /\ req.perfil = "pcd"
    /\ req.chuva
    /\ Len(resp.path) >= 3
    /\ \E i \in 1..Len(edges) :
          /\ edges[i].risco_alag = 1
          /\ \E j \in 1..(Len(resp.path) - 1) :
                /\ idx(edges[i].from) = resp.path[j]
                /\ idx(edges[i].to) = resp.path[j + 1]
    /\ resp.cost > 6 * 9

----------------------------------------------------------------------------
(***************************************************************************)
(* Frame properties of the queries.                                        *)
(***************************************************************************)
GraphBuilt == nodes_df = "loaded" /\ edges_df = "loaded"

\* C14 as stated: once the graph data is built, no query changes the node
\* table, the edge table or the id-to-index map: the graph data is the same
\* before and after every query.
C14_QueriesLeaveGraphData ==
    [][GraphBuilt => /\ nodes' = nodes
                     /\ edges' = edges
                     /\ nodes_df' = nodes_df
                     /\ edges_df' = edges_df]_vars

\* what the code does: the edge table, the node ids and their indices never
\* change; a query may load data frames that are not loaded and never
\* unloads them; the name column changes only by alternatives (name
\* fallback) and node search rewriting it as text
QueriesLeaveEdgesAndIds ==
    [][/\ edges' = edges
       /\ Len(nodes') = Len(nodes)
       /\ \A k \in 1..Len(nodes) :
             /\ nodes'[k].id = nodes[k].id
             /\ nodes'[k].name \in {nodes[k].name, astype_str(nodes[k].name)}
       /\ nodes' # nodes => req'.op \in {"alternatives", "search_nodes"}
       /\ nodes_df = "loaded" => nodes_df' = "loaded"
       /\ edges_df = "loaded" => edges_df' = "loaded"]_vars

\* a query on built graph data has turned the missing name of a node into
\* the text 'nan'
C14_Witness ==
    /\ GraphBuilt
    /\ req.op \in {"alternatives", "search_nodes"}
    /\ \E k \in 1..Len(nodes) : nodes[k].name = "nan"

----------------------------------------------------------------------------
(***************************************************************************)
(* Queries sharing the module's data frames.  The handlers are coroutines  *)
(* without an await, so each runs to its end on the event loop; concurrent *)
(* queries are answered one after another, in any order.  Start-up loaded  *)
(* the engine but left nodes_df, edges_df unset; while the queries run the *)
(* hybrid CSV files are absent and the primary CSV pair loads.             *)
(***************************************************************************)
\* nodes_df, edges_df = None, None at the end of a start-up that could not
\* load the tables
BootDf == "None"

\* os.path.isfile(hybrid_nodes) during the queries
HybridPresent == FALSE

\* load_graph_data(NODES, EDGES) returns the tables during the queries
PrimaryLoads == TRUE

SharedTables ==
    {<<NodeTable, SubTable(EdgePool, 1..7, 1)>>, <<NodeTable, EdgePool>>,
     <<NamelessTable, SubTable(EdgePool, 1..7, 1)>>}

InitShared ==
    /\ \E tb \in SharedTables : nodes = tb[1] /\ edges = tb[2]
    /\ nodes_df = BootDf
    /\ edges_df = BootDf
    /\ req = NoReq
    /\ resp = NoResp
    /\ CacheConstructed /\ FfiConstructed
    /\ PipelineConstructed /\ StreamerConstructed

SharedAlternatives ==
    /\ resp = NoResp
    /\ \E r \in AlternativesRequests :
         \E out \in {get_alternatives(r, HybridPresent, PrimaryLoads)} :
            /\ req' = r
            /\ resp' = out.resp
            /\ nodes' = out.nodes
            /\ nodes_df' = out.nodes_df
            /\ edges_df' = out.edges_df
    /\ UNCHANGED edges
    /\ UNCHANGED <<cache_vars, ffi_vars, pipeline_vars, stream_vars>>

SharedRouteDetails ==
    /\ resp = NoResp
    /\ \E r \in RouteDetailsRequests :
         \E out \in {route_details(r, PrimaryLoads)} :
            /\ req' = r
            /\ resp' = out.resp
            /\ nodes_df' = out.nodes_df
            /\ edges_df' = out.edges_df
    /\ UNCHANGED <<nodes, edges>>
    /\ UNCHANGED <<cache_vars, ffi_vars, pipeline_vars, stream_vars>>

NextShared ==
    \/ Route
    \/ SharedAlternatives
    \/ SharedRouteDetails
    \/ Reply

SpecShared == InitShared /\ [][NextShared]_vars

\* the answer to request r when it is the only query after start-up
AloneResp(r) ==
    CASE r.op = "route" -> get_route(r)
      [] r.op = "alternatives" ->
           get_alternatives_on(r, HybridPresent, PrimaryLoads, BootDf, BootDf).resp
      [] r.op = "route_details" ->
           route_details_on(r, PrimaryLoads, BootDf, BootDf).resp

\* the answers to request r over the states the data frames can be in
AnswersByLoadState(r) ==
    {CASE r.op = "route" -> get_route(r)
       [] r.op = "alternatives" ->
            get_alternatives_on(r, HybridPresent, PrimaryLoads, d, d).resp
       [] r.op = "route_details" ->
            route_details_on(r, PrimaryLoads, d, d).resp :
     d \in {"None", "loaded"}}

(***************************************************************************)
(* C15: whatever queries were answered before it, a route, alternatives or *)
(* route_details query returns exactly the answer it returns when it is    *)
(* the only query run on the same graph with the same inputs.              *)
(***************************************************************************)
C15_ResultAsWhenRunAlone ==
    resp # NoResp => resp = AloneResp(req)

\* what the code does: the answer is the one the handler gives for the state
\* the data frames are in, which earlier queries may have changed
ResultFollowsLoadState ==
    resp # NoResp => resp \in AnswersByLoadState(req)

\* an alternatives query naming a node by its name is answered with its routes
\* after another query loaded the data frames, and with NODE_NOT_FOUND alone
C15_Witness ==
    /\ req.op = "alternatives"
    /\ req.from = "RAMPA PAULISTA"
    /\ req.to = "E"
    /\ req.k = 1
    /\ resp.status = 200
    /\ AloneResp(req).error_code = "NODE_NOT_FOUND"

----------------------------------------------------------------------------
(***************************************************************************)
(* Graph data validation (api/app/validators.py): validate_graph_data on   *)
(* bounded lists of node and edge rows.                                    *)
(***************************************************************************)
MaxNodes == 3
MaxEdges == 2

\* str.upper() on the ids of the model
Upper(v) == IF v = "a" THEN "A" ELSE v

\* NodeValidator(**node) constructs without an exception (lat, lon and tipo
\* of the model's rows are valid)
NodeValidator(node) ==
    /\ Len(node.id) >= 1 /\ Len(node.id) <= 16
    /\ Len(node.name) >= 1 /\ Len(node.name) <= 128
    /\ id_pattern(node.id)

\* EdgeValidator(**edge) constructs without an exception
EdgeValidator(edge) ==
    /\ Len(edge.from) >= 1 /\ Len(edge.from) <= 16
    /\ Len(edge.to) >= 1 /\ Len(edge.to) <= 16
    /\ edge.tempo_min > 0 /\ edge.tempo_min <= 1440
    /\ edge.transferencia \in 0..1
    /\ edge.escada \in 0..1
    /\ edge.calcada_ruim \in 0..1
    /\ edge.risco_alag \in 0..1
    /\ edge.modo \in {"pe", "onibus", "metro", "trem"}
    /\ id_pattern(edge.from)
    /\ id_pattern(edge.to)

\* the loop over the node rows: the validated ids and the number of errors
RECURSIVE validate_nodes(_, _, _, _)
validate_nodes(rows, i, node_ids, errors) ==
    IF i > Len(rows) THEN [node_ids |-> node_ids, errors |-> errors]
    ELSE IF ~NodeValidator(rows[i])
         THEN validate_nodes(rows, i + 1, node_ids, errors + 1)
         ELSE LET id == Upper(rows[i].id)
              IN validate_nodes(rows, i + 1, node_ids \cup {id},
                                IF id \in node_ids THEN errors + 1 ELSE errors)

\* the loop over the edge rows: the number of errors
RECURSIVE validate_edges(_, _, _)
validate_edges(rows, i, node_ids) ==
    IF i > Len(rows) THEN 0
    ELSE (IF ~EdgeValidator(rows[i]) THEN 1
          ELSE (IF Upper(rows[i].from) \notin node_ids THEN 1 ELSE 0)
               + (IF Upper(rows[i].to) \notin node_ids THEN 1 ELSE 0))
         + validate_edges(rows, i + 1, node_ids)

\* validate_graph_data: the number of errors in each list it returns
validate_graph_data(node_rows, edge_rows) ==
    LET checked == validate_nodes(node_rows, 1, {}, 0)
    IN [nodes |-> checked.errors,
        edges |-> validate_edges(edge_rows, 1, checked.node_ids),
        connectivity |-> IF Cardinality(checked.node_ids) < 2 THEN 1 ELSE 0]

\* every list of at most n elements of S
RECURSIVE ListsUpTo(_, _)
ListsUpTo(S, n) ==
    IF n = 0 THEN {<<>>}
    ELSE LET shorter == ListsUpTo(S, n - 1)
         IN shorter \cup {Append(q, x) : q \in shorter, x \in S}

\* the rows handed to validate_graph_data
NodeRows == {[id |-> id, name |-> "n"] : id \in {"A", "B", "a", ""}}

EdgeRows ==
    {Row(f, t, tm, 0, 0, 0, 0, "pe") :
        f \in {"A", "B", "Z"}, t \in {"A", "B", "Z"}, tm \in {0, 5}}

NodeLists == ListsUpTo(NodeRows, MaxNodes)
EdgeLists == ListsUpTo(EdgeRows, MaxEdges)

InitGraphData ==
    /\ nodes \in NodeLists
    /\ edges \in EdgeLists
    /\ nodes_df = "None"
    /\ edges_df = "None"
    /\ req = NoReq
    /\ resp = NoResp
    /\ CacheConstructed /\ FfiConstructed
    /\ PipelineConstructed /\ StreamerConstructed

\* validate_graph_data(nodes, edges)
ValidateGraphData ==
    /\ resp = NoResp
    /\ \E out \in {validate_graph_data(nodes, edges)} :
         /\ req' = [NoReq EXCEPT !.op = "validate_graph_data"]
         /\ resp' = [NoResp EXCEPT
                       !.errors = out.nodes + out.edges + out.connectivity]
    /\ UNCHANGED <<nodes, edges, nodes_df, edges_df>>
    /\ UNCHANGED <<cache_vars, ffi_vars, pipeline_vars, stream_vars>>

NextGraphData ==
    \/ ValidateGraphData
    \/ Reply

SpecGraphData == InitGraphData /\ [][NextGraphData]_vars

DuplicateNodeId ==
    \E i, j \in 1..Len(nodes) : i < j /\ nodes[i].id = nodes[j].id

UnknownEndpoint ==
    \E e \in 1..Len(edges) :
       \/ edges[e].from \notin {nodes[i].id : i \in 1..Len(nodes)}
       \/ edges[e].to \notin {nodes[i].id : i \in 1..Len(nodes)}

NonPositiveTime == \E e \in 1..Len(edges) : edges[e].tempo_min <= 0

SelfLoop == \E e \in 1..Len(edges) : edges[e].from = edges[e].to

(***************************************************************************)
(* C16: validate_graph_data reports at least one error for every input     *)
(* with a duplicate node id, an edge endpoint that is not in the node      *)
(* table, an edge with tempo_min <= 0 or an edge from a node to itself.    *)
(***************************************************************************)
C16_InvalidGraphReported ==
    req.op = "validate_graph_data" =>
       (DuplicateNodeId \/ UnknownEndpoint \/ NonPositiveTime \/ SelfLoop
          => resp.errors > 0)

\* what the code does: duplicate ids and non-positive times are reported, and
\* so is an endpoint whose upper-cased id is no upper-cased node id
ReportedViolations ==
    req.op = "validate_graph_data" =>
       /\ DuplicateNodeId \/ NonPositiveTime => resp.errors > 0
       /\ (\E e \in 1..Len(edges) : \E end \in {edges[e].from, edges[e].to} :
              Upper(end) \notin {Upper(nodes[i].id) : i \in 1..Len(nodes)})
            => resp.errors > 0

\* two valid nodes and one edge from A to A are validated without an error
C16_Witness ==
    /\ req.op = "validate_graph_data"
    /\ SelfLoop
    /\ ~DuplicateNodeId /\ ~UnknownEndpoint /\ ~NonPositiveTime
    /\ resp.errors = 0

----------------------------------------------------------------------------
\* a request whose k is below 1
KBelowOne == req.op = "alternatives" /\ req.k < 1

(***************************************************************************)
(* C17: a request with k < 1 is rejected before the path engine is called: *)
(* the answer is a client error, no engine call is made for it and         *)
(* k_shortest_yen is never handed a k below 1.                             *)
(***************************************************************************)
C17_KBelowOneRejected ==
    KBelowOne /\ resp # NoResp =>
       /\ resp.status \in {400, 404, 422}
       /\ resp.engine_calls = 0
       /\ \A i \in 1..Len(resp.engine_ks) : resp.engine_ks[i] >= 1

\* what the code does: k = 0 is handed to k_shortest_yen once both nodes are
\* found, and a negative k stops at the construction of the routes array
KBelowOneReachesWrapper ==
    KBelowOne /\ resp # NoResp =>
       \/ resp.engine_calls = 0 /\ resp.engine_ks = <<>>
             /\ resp.status \in {404, 422, 500}
       \/ req.k = 0 /\ resp.engine_ks = <<0>>
             /\ resp.error_code = "ROUTE_NOT_FOUND"

\* k = 0 between two connected nodes: k_shortest_yen is called with k = 0
C17_Witness ==
    /\ req.op = "alternatives"
    /\ req.from = "A" /\ req.to = "E"
    /\ req.k = 0
    /\ resp.engine_ks = <<0>>
    /\ resp.engine_calls > 0
    /\ resp.error_code = "ROUTE_NOT_FOUND"

----------------------------------------------------------------------------
\* the walks from s to t of minimum cost
MinCostWalks(g, s, t) ==
    LET W == WalksTo(g, s, t)
    IN {w \in W : \A v \in W : WalkCost(g, w) <= WalkCost(g, v)}

\* the nodes a walk of at most MaxWalk edges reaches from s, each with the
\* cost of its cheapest walk, as pairs <<node, distance>>
Distances(g, s) ==
    LET W == WalksFrom(g, s, MaxWalk)
    IN {<<w[Len(w)], WalkCost(g, w)>> : w \in W} \
         {<<w[Len(w)], WalkCost(g, w)>> :
             w \in {v \in W : \E u \in W : /\ u[Len(u)] = v[Len(v)]
                                           /\ WalkCost(g, u) < WalkCost(g, v)}}

\* (dist, node_idx) order, not strict
KeyLeq(a, b) == a[2] < b[2] \/ (a[2] = b[2] /\ a[1] <= b[1])

(***************************************************************************)
(* C18: among the paths from s to t of minimum total cost, the shortest-   *)
(* path query returns the one whose sequence of node indices is            *)
(* lexicographically smallest.                                             *)
(***************************************************************************)
C18_LexSmallestAmongCheapest ==
    RouteAnswered /\ resp.status = 200 =>
       \A w \in MinCostWalks(RowArcs(_params(req.perfil, req.chuva)),
                             idx(req.from), idx(req.to)) :
          ~LexLess(w, resp.path)

\* C18, as the search behaves: the returned path has minimum cost, and each
\* of its nodes is entered from the predecessor with the smallest
\* (dist, node_idx) among the predecessors that lie on a minimum-cost path
\* to that node.
C18_SmallestKeyPredecessor ==
    RouteAnswered /\ resp.status = 200 =>
       LET g == RowArcs(_params(req.perfil, req.chuva))
       IN \A D \in {Distances(g, idx(req.from))} :
            /\ <<idx(req.to), resp.cost>> \in D
            /\ \A i \in 2..Len(resp.path) :
                 \A du \in {d \in D : d[1] = resp.path[i - 1]},
                    dv \in {d \in D : d[1] = resp.path[i]} :
                    \A a \in g : \A dw \in {d \in D : d[1] = a[1]} :
                       a[2] = dv[1] /\ dw[2] + a[3] = dv[2] => KeyLeq(du, dw)

\* a route was returned although another path of the same, minimum cost has
\* a lexicographically smaller index sequence
C18_Witness ==
    /\ RouteAnswered
    /\ resp.status = 200
    /\ \E w \in MinCostWalks(RowArcs(_params(req.perfil, req.chuva)),
                             idx(req.from), idx(req.to)) :
          LexLess(w, resp.path)

----------------------------------------------------------------------------
\* the ids of the node table the engine holds
TableIds == {nodes[i].id : i \in 1..Len(nodes)}

----------------------------------------------------------------------------
\* the five sample nodes with the seven sample edges
SampleGraph ==
    /\ TableIds = NodeIds
    /\ edges = SubTable(EdgePool, 1..7, 1)

\* POST /route from A to E for the PcD profile without rain was answered
PcdRouteAToE ==
    /\ SampleGraph
    /\ req.op = "route"
    /\ req.from = "A" /\ req.to = "E"
    /\ req.perfil = "pcd" /\ ~req.chuva
    /\ resp # NoResp

\* the summed tempo_min of the edge rows along a path of node indices
RECURSIVE PathTime(_)
PathTime(path) ==
    IF Len(path) < 2 THEN 0
    ELSE LET rows == {i \in 1..Len(edges) : /\ edges[i].from = node_id(path[1])
                                            /\ edges[i].to = node_id(path[2])}
         IN edges[CHOOSE i \in rows : \A j \in rows : i <= j].tempo_min
              + PathTime(Tail(path))

(***************************************************************************)
(* C20: on the sample graph, the shortest route from A to E for the PcD    *)
(* profile without rain is A, C, E with a total time of 11 minutes; it     *)
(* does not use the bad-pavement edge from B to E.                         *)
(***************************************************************************)
C20_PcdAvoidsBadPavement ==
    PcdRouteAToE =>
       /\ resp.status = 200
       /\ resp.path = <<idx("A"), idx("C"), idx("E")>>
       /\ PathTime(resp.path) = 11

\* C20, as the cost model decides: the PcD route from A to E is A, B, E with a
\* total time of 9 minutes; the bad-pavement penalty gamma = 6 of the edge from
\* B to E is less than the cost alpha * 2 = 12 of the two more minutes A, C, E
\* takes, so that path costs 6 more.
C20_PcdKeepsBadPavement ==
    PcdRouteAToE =>
       LET g == RowArcs(_params("pcd", FALSE))
       IN /\ resp.status = 200
          /\ resp.path = <<idx("A"), idx("B"), idx("E")>>
          /\ PathTime(resp.path) = 9
          /\ PathTime(<<idx("A"), idx("C"), idx("E")>>) = 11
          /\ WalkCost(g, <<idx("A"), idx("C"), idx("E")>>) = resp.cost + 6

\* the PcD route from A to E was answered with a path over the bad-pavement
\* edge from B to E
C20_Witness ==
    /\ PcdRouteAToE
    /\ resp.status = 200
    /\ \E i \in 1..(Len(resp.path) - 1) :
          /\ node_id(resp.path[i]) = "B"
          /\ node_id(resp.path[i + 1]) = "E"
          /\ get_edge_info("B", "E").calcada_ruim = 1

----------------------------------------------------------------------------
\* the itinerary of the path A, C, D, E was built on edges walked, by bus, by bus
WalkBusBusBuilt ==
    /\ ItineraryBuilt
    /\ req.path = <<"A", "C", "D", "E">>
    /\ HopModes(req.path, 1) = <<"pe", "onibus", "onibus">>

(***************************************************************************)
(* C21: the itinerary built for the path A, C, D, E (walk, bus, bus)       *)
(* reports one transfer: the change from walking to the bus counts once    *)
(* and the bus-to-bus continuation does not count.                         *)
(***************************************************************************)
C21_WalkToBusIsOneTransfer ==
    WalkBusBusBuilt => resp.details.transfers = 1

\* C21, as calculate_transfers counts: walking is no mode of transport, so
\* boarding after a walk is no transfer; the itinerary of A, C, D, E reports
\* none, and so does every path that starts with a walk and goes on in one
\* single mode.
C21_WalkToBusIsNoTransfer ==
    /\ WalkBusBusBuilt => resp.details.transfers = 0
    /\ ItineraryBuilt /\ AllHopsFound(req.path) /\ Len(req.path) >= 3
         /\ Hop(req.path, 1).modo = "pe"
         /\ (\A i \in 2..(Len(req.path) - 1) :
                Hop(req.path, i).modo = Hop(req.path, 2).modo)
       => resp.details.transfers = 0

\* the itinerary of A, C, D, E was built with its two steps and no transfer
C21_Witness ==
    /\ WalkBusBusBuilt
    /\ resp.details.transfers = 0
    /\ resp.details.total_time_min = 15

----------------------------------------------------------------------------
(***************************************************************************)
(* Edge-improvement analysis: Engine.analyze_edge_improvements copies the  *)
(* list the native analyser returns (modelled from the specification,      *)
(* section 4.6, over all ordered pairs of distinct nodes).                 *)
(***************************************************************************)
MaxResults == 3

\* 1000 * ln(n), rounded, for the path counts of the model
Log1000(n) ==
    CASE n = 1 -> 0
      [] n = 2 -> 693
      [] n = 3 -> 1099
      [] n = 4 -> 1386
      [] n = 5 -> 1609
      [] n = 6 -> 1792
      [] n = 7 -> 1946
      [] n = 8 -> 2079
      [] n = 9 -> 2197
      [] n = 10 -> 2303
      [] n = 11 -> 2398
      [] n = 12 -> 2485
      [] n = 13 -> 2565
      [] n = 14 -> 2639
      [] n = 15 -> 2708
      [] n = 16 -> 2773
      [] n = 17 -> 2833
      [] n = 18 -> 2890
      [] n = 19 -> 2944
      [] n = 20 -> 2996
      [] OTHER -> 3045

\* the penalties of a row as if stairs and bad pavement weighed on every
\* profile
fixable_terms_any_profile(e, p) ==
    {<<"stairs", IF e.escada = 1 THEN p.beta ELSE 0>>,
     <<"bad_pavement", IF e.calcada_ruim = 1 THEN p.gamma ELSE 0>>,
     <<"flood_risk", IF e.risco_alag = 1 /\ p.chuva_on = 1 THEN p.delta ELSE 0>>}

\* the part of edge_cost each fixable attribute of row e contributes under p
fixable_terms(e, p) ==
    {<<"stairs", IF e.escada = 1 /\ p.perfil_pcd = 1 THEN p.beta ELSE 0>>,
     <<"bad_pavement",
       IF e.calcada_ruim = 1 /\ p.perfil_pcd = 1 THEN p.gamma ELSE 0>>,
     <<"flood_risk", IF e.risco_alag = 1 /\ p.chuva_on = 1 THEN p.delta ELSE 0>>}

\* the worst flagged attribute of row e: the largest contribution, the first
\* in the order stairs, bad pavement, flood risk among equals
worst_term(e, p) ==
    LET terms == fixable_terms(e, p)
        rank(name) == CASE name = "stairs" -> 1
                        [] name = "bad_pavement" -> 2
                        [] OTHER -> 3
    IN CHOOSE x \in terms : \A y \in terms :
          x[2] > y[2] \/ (x[2] = y[2] /\ rank(x[1]) <= rank(y[1]))

\* the row the search takes from u to v: the cheapest, the first among equals
arc_row(u, v, p) ==
    LET rows == {i \in 1..Len(edges) : /\ node_index_by_id(edges[i].from) = u
                                       /\ node_index_by_id(edges[i].to) = v}
    IN CHOOSE i \in rows : \A j \in rows :
          \/ edge_cost(edges[i], p) < edge_cost(edges[j], p)
          \/ (edge_cost(edges[i], p) = edge_cost(edges[j], p) /\ i <= j)

\* steps 1 and 2: the shortest path of every ordered pair, and for every row
\* on it with a positive fixable contribution the record <<pair, row>>
path_records(p) ==
    UNION {LET path == dijkstra_shortest(pair[1], pair[2], p).path
           IN {<<pair, arc_row(path[i], path[i + 1], p)>> :
                  i \in {j \in 1..(Len(path) - 1) :
                           worst_term(edges[arc_row(path[j], path[j + 1], p)],
                                      p)[2] > 0}} :
           pair \in {q \in Idx \X Idx : q[1] # q[2]}}

\* step 3 and the score of step 4 for row i
improvement(i, records, p) ==
    LET count == Cardinality({r \in records : r[2] = i})
        term == worst_term(edges[i], p)
    IN [from |-> node_index_by_id(edges[i].from),
        to |-> node_index_by_id(edges[i].to),
        issue_type |-> term[1],
        current_cost |-> edge_cost(edges[i], p),
        potential_savings |-> term[2] * count,
        affected_routes |-> count,
        impact_score |-> term[2] * count * Log1000(1 + count)]

\* step 4: the entries by descending score (by row among equal scores)
RECURSIVE ranked(_, _, _)
ranked(rows, records, p) ==
    IF rows = {} THEN <<>>
    ELSE LET score(i) == improvement(i, records, p).impact_score
             top == CHOOSE i \in rows : \A j \in rows :
                       score(i) > score(j) \/ (score(i) = score(j) /\ i <= j)
         IN <<improvement(top, records, p)>>
              \o ranked(rows \ {top}, records, p)

\* a result that is not cut to max_results
native_analysis_uncut(p, max_results) ==
    Only({ranked({r[2] : r \in records}, records, p) :
          records \in {path_records(p)}})

\* lib.analyze_edge_improvements: the ranked list cut to max_results
native_analysis(p, max_results) ==
    Only({LET all == ranked({r[2] : r \in records}, records, p)
          IN SubSeq(all, 1, IF Len(all) < max_results THEN Len(all)
                            ELSE max_results) :
          records \in {path_records(p)}})

\* Engine.analyze_edge_improvements: one dict per entry of the result
analyze_edge_improvements(p, max_results) ==
    LET result == native_analysis(p, max_results)
    IN [i \in 1..Len(result) |-> result[i]]

\* the graphs analysed: the sample nodes with every edge table, and no graph
AnalysisTables == {<<NodeTable, e>> : e \in EdgeTables} \cup {<<(<<>>), <<>>>>}

InitAnalysis ==
    /\ \E tb \in AnalysisTables : nodes = tb[1] /\ edges = tb[2]
    /\ nodes_df = "None"
    /\ edges_df = "None"
    /\ req = NoReq
    /\ resp = NoResp
    /\ CacheConstructed /\ FfiConstructed
    /\ PipelineConstructed /\ StreamerConstructed

\* engine.analyze_edge_improvements(engine._params(perfil, chuva), max_results)
AnalyzeEdgeImprovements ==
    /\ resp = NoResp
    /\ \E perfil \in Perfis, chuva \in BOOLEAN, max_results \in 1..MaxResults :
         /\ req' = [NoReq EXCEPT !.op = "analyze_edge_improvements",
                                 !.perfil = perfil, !.chuva = chuva,
                                 !.k = max_results]
         /\ resp' = [NoResp EXCEPT
                       !.status = 200,
                       !.improvements =
                          analyze_edge_improvements(_params(perfil, chuva),
                                                    max_results)]
    /\ UNCHANGED <<nodes, edges, nodes_df, edges_df>>
    /\ UNCHANGED <<cache_vars, ffi_vars, pipeline_vars, stream_vars>>

NextAnalysis ==
    \/ AnalyzeEdgeImprovements
    \/ Reply

SpecAnalysis == InitAnalysis /\ [][NextAnalysis]_vars

\* an analysis of the sample graph was returned
SampleAnalysed ==
    /\ req.op = "analyze_edge_improvements"
    /\ nodes = NodeTable
    /\ edges = SubTable(EdgePool, 1..7, 1)

\* some shortest path of the analysis goes over the edge from B to E
UsesBToE(p) ==
    \E s, t \in Idx :
       /\ s # t
       /\ LET path == dijkstra_shortest(s, t, p).path
          IN \E i \in 1..(Len(path) - 1) :
                path[i] = idx("B") /\ path[i + 1] = idx("E")

\* the list names the edge from B to E for bad pavement, with positive savings
ListsBToE ==
    \E i \in 1..Len(resp.improvements) :
       /\ resp.improvements[i].from = idx("B")
       /\ resp.improvements[i].to = idx("E")
       /\ resp.improvements[i].issue_type = "bad_pavement"
       /\ resp.improvements[i].potential_savings > 0

----------------------------------------------------------------------------
(***************************************************************************)
(* C23: the analysis returns at most max_results entries, in order of      *)
(* non-increasing impact score, for every profile, rain flag and           *)
(* max_results >= 1; on an empty graph it returns the empty list.          *)
(***************************************************************************)
C23_AnalysisBoundedAndRanked ==
    req.op = "analyze_edge_improvements" =>
       /\ Len(resp.improvements) <= req.k
       /\ \A i \in 1..(Len(resp.improvements) - 1) :
             resp.improvements[i].impact_score
                >= resp.improvements[i + 1].impact_score
       /\ nodes = <<>> \/ edges = <<>> => resp.improvements = <<>>

\* more edges qualify than max_results allows, and the entries returned have
\* different scores
C23_Witness ==
    /\ req.op = "analyze_edge_improvements"
    /\ req.k = 2
    /\ Len(resp.improvements) = 2
    /\ resp.improvements[1].impact_score > resp.improvements[2].impact_score
    /\ Cardinality({r[2] : r \in path_records(_params(req.perfil, req.chuva))})
          > 2


----------------------------------------------------------------------------
(***************************************************************************)
(* Route, alternatives and edge-analysis queries on one engine, under      *)
(* every profile.                                                          *)
(***************************************************************************)
\* the service once its data frames are loaded
InitProfiles ==
    /\ \E tb \in InitTables : nodes = tb[1] /\ edges = tb[2]
    /\ nodes_df = "loaded"
    /\ edges_df = "loaded"
    /\ req = NoReq
    /\ resp = NoResp
    /\ CacheConstructed /\ FfiConstructed
    /\ PipelineConstructed /\ StreamerConstructed

NextProfiles ==
    \/ Route
    \/ Alternatives
    \/ AnalyzeEdgeImprovements
    \/ Reply

SpecProfiles == InitProfiles /\ [][NextProfiles]_vars

\* the other one of the two profiles padrao, idoso
Twin(perfil) == IF perfil = "idoso" THEN "padrao" ELSE "idoso"

\* the coefficients tried in place of beta and gamma
OtherCoefficients == {0, 7, 100}

\* the cost of every row is the same whatever beta and gamma are, under
\* every profile other than pcd
CostIgnoresStairsAndPavement ==
    \A i \in 1..Len(edges), perfil \in Perfis \ {"pcd"}, chuva \in BOOLEAN,
       b \in OtherCoefficients, g \in OtherCoefficients :
       LET p == _params(perfil, chuva)
       IN edge_cost(edges[i], [p EXCEPT !.beta = b, !.gamma = g])
             = edge_cost(edges[i], p)

\* the answer in resp has the paths and costs the same query has under the
\* twin profile
AnswerAsUnderTwin ==
    LET twin == _params(Twin(req.perfil), req.chuva)
    IN CASE req.op = "route" ->
              LET other == get_route([req EXCEPT !.perfil = Twin(req.perfil)])
              IN /\ resp.status = other.status
                 /\ resp.path = other.path
                 /\ resp.cost = other.cost
         [] req.op = "alternatives" ->
              LET s == by_name(idx(req.from), req.from, nodes_df)
                  t == by_name(idx(req.to), req.to, nodes_df)
              IN /\ resp.status = 200
                    => resp.routes = k_alternatives(s, t, twin, req.k)
                 /\ resp.error_code = "ROUTE_NOT_FOUND"
                    => k_alternatives(s, t, twin, req.k) = <<>>
         [] req.op = "analyze_edge_improvements" ->
              resp.improvements = analyze_edge_improvements(twin, req.k)
         [] OTHER -> TRUE

\* C27: under every profile other than pcd the edge cost does not depend on
\* beta or gamma, and every route, alternatives and edge-analysis query under
\* idoso returns the paths and costs of the same query under padrao.
C27_IdosoAsPadrao ==
    /\ CostIgnoresStairsAndPavement
    /\ (resp # NoResp /\ req.perfil \in {"idoso", "padrao"})
          => AnswerAsUnderTwin

\* some route of the answer goes over a row with stairs or bad pavement
OverStairsOrPavement(routes) ==
    \E r \in 1..Len(routes) : \E i \in 1..(Len(routes[r].path) - 1) :
       \E e \in 1..Len(edges) :
          /\ idx(edges[e].from) = routes[r].path[i]
          /\ idx(edges[e].to) = routes[r].path[i + 1]
          /\ (edges[e].escada = 1 \/ edges[e].calcada_ruim = 1)

C27_Witness ==
    /\ req.op = "alternatives"
    /\ req.perfil = "idoso"
    /\ resp.status = 200
    /\ Len(resp.routes) >= 2
    /\ OverStairsOrPavement(resp.routes)
    /\ resp.routes # k_alternatives(idx(req.from), idx(req.to),
                                    _params("pcd", req.chuva), req.k)


----------------------------------------------------------------------------
(***************************************************************************)
(* Walking connections (integration/spatial_utils.py).  The nodes of the   *)
(* model lie on one meridian: lat is the distance in metres north of a     *)
(* reference point, lon is 0, so that the haversine distance of two nodes  *)
(* is the difference of their lat.  tempo_min of a walking edge is kept in *)
(* tenths of a minute, the unit round(walking_time, 1) rounds to.          *)
(***************************************************************************)
walking_speed_kmh == 5

haversine_distance(lat1, lon1, lat2, lon2) ==
    IF lat1 >= lat2 THEN lat1 - lat2 ELSE lat2 - lat1

HasCoordinates(node) == "lat" \in DOMAIN node /\ "lon" \in DOMAIN node

\* SpatialIndex._get_cell: the grid cell of a point
_get_cell(lat, lon, grid_size_m) == <<lat \div grid_size_m, 0>>

\* SpatialIndex.grid[cell]: the indexes (from 0) of the nodes in the cell, in
\* table order
RECURSIVE grid_cell(_, _, _, _)
grid_cell(tbl, cell, grid_size_m, k) ==
    IF k > Len(tbl) THEN <<>>
    ELSE IF /\ HasCoordinates(tbl[k])
            /\ _get_cell(tbl[k].lat, tbl[k].lon, grid_size_m) = cell
    THEN <<k - 1>> \o grid_cell(tbl, cell, grid_size_m, k + 1)
    ELSE grid_cell(tbl, cell, grid_size_m, k + 1)

\* the entries <<node_idx, distance>> of the nodes of one cell within reach
RECURSIVE within_reach(_, _, _, _, _)
within_reach(tbl, members, lat, lon, max_distance_m) ==
    IF members = <<>> THEN <<>>
    ELSE LET node == tbl[members[1] + 1]
             distance == haversine_distance(lat, lon, node.lat, node.lon)
             rest == within_reach(tbl, Tail(members), lat, lon, max_distance_m)
         IN IF distance <= max_distance_m
            THEN <<(<<members[1], distance>>)>> \o rest
            ELSE rest

\* SpatialIndex.find_nearby_nodes on an index of cell size max_distance_m:
\* the cells at offsets -1, 0, 1 of the centre cell, in that order
find_nearby_nodes(tbl, lat, lon, max_distance_m) ==
    LET centre == _get_cell(lat, lon, max_distance_m)
        cell(offset) == <<centre[1] + offset, centre[2]>>
        found(offset) ==
           within_reach(tbl, grid_cell(tbl, cell(offset), max_distance_m, 1),
                        lat, lon, max_distance_m)
    IN found(-1) \o found(0) \o found(1)

\* list.sort(key=lambda x: x[1]): stable, by distance
RECURSIVE sort_by_distance(_)
sort_by_distance(nearby) ==
    IF nearby = <<>> THEN <<>>
    ELSE LET first == CHOOSE i \in 1..Len(nearby) :
                         \A j \in 1..Len(nearby) :
                            \/ nearby[i][2] < nearby[j][2]
                            \/ (nearby[i][2] = nearby[j][2] /\ i <= j)
         IN <<nearby[first]>>
              \o sort_by_distance(SubSeq(nearby, 1, first - 1)
                                  \o SubSeq(nearby, first + 1, Len(nearby)))

\* round((distance / 1000) / walking_speed_kmh * 60, 1), in tenths of a
\* minute: 0.6 * distance / walking_speed_kmh rounded to the nearest integer
\* (no whole number of metres is a tie at 5 km/h)
walking_tenths(distance) ==
    (12 * distance + 10 * walking_speed_kmh) \div (20 * walking_speed_kmh)

walking_edge(from, to, tenths) ==
    [from |-> from, to |-> to, tempo_min |-> tenths, transferencia |-> 0,
     escada |-> 0, calcada_ruim |-> 0, risco_alag |-> 0, modo |-> "pe"]

\* the inner loop of create_walking_connections for from-node i (from 0) over
\* the entries of nearby from position j on; out: the edges so far, whose
\* <<from, to>> pairs are edges_set
RECURSIVE connect_nearby(_, _, _, _, _, _)
connect_nearby(tbl, i, nearby, j, bidirectional, out) ==
    IF j > Len(nearby) THEN out
    ELSE
      LET node_idx == nearby[j][1]
          distance == nearby[j][2]
          from_id == tbl[i + 1].id
          to_id == tbl[node_idx + 1].id
          edges_set == {<<out[e].from, out[e].to>> : e \in 1..Len(out)}
          tenths == walking_tenths(distance)
      IN IF node_idx = i
         THEN connect_nearby(tbl, i, nearby, j + 1, bidirectional, out)
         ELSE IF <<from_id, to_id>> \in edges_set
                 \/ <<to_id, from_id>> \in edges_set
         THEN connect_nearby(tbl, i, nearby, j + 1, bidirectional, out)
         ELSE connect_nearby(tbl, i, nearby, j + 1, bidirectional,
                IF bidirectional
                THEN Append(Append(out, walking_edge(from_id, to_id, tenths)),
                            walking_edge(to_id, from_id, tenths))
                ELSE Append(out, walking_edge(from_id, to_id, tenths)))

\* the outer loop, from from-node i (from 0) on
RECURSIVE connect_from(_, _, _, _, _, _)
connect_from(tbl, i, max_distance_m, max_connections_per_node, bidirectional, out) ==
    IF i >= Len(tbl) THEN out
    ELSE IF ~HasCoordinates(tbl[i + 1])
    THEN connect_from(tbl, i + 1, max_distance_m, max_connections_per_node,
                      bidirectional, out)
    ELSE
      LET sorted == sort_by_distance(
                       find_nearby_nodes(tbl, tbl[i + 1].lat, tbl[i + 1].lon,
                                         max_distance_m))
          nearby == SubSeq(sorted, 1,
                           IF Len(sorted) < max_connections_per_node
                           THEN Len(sorted) ELSE max_connections_per_node)
      IN connect_from(tbl, i + 1, max_distance_m, max_connections_per_node,
                      bidirectional,
                      connect_nearby(tbl, i, nearby, 1, bidirectional, out))

create_walking_connections(tbl, max_distance_m, max_connections_per_node, bidirectional) ==
    IF Len(tbl) = 0 THEN <<>>
    ELSE connect_from(tbl, 0, max_distance_m, max_connections_per_node,
                      bidirectional, <<>>)

\* the stops of the model: up to MaxStops nodes, each without coordinates or
\* at one of the places (metres north of the reference point)
MaxStops == 3
Places == {0, 3, 5, 400, 900}
StopIds == <<"A", "B", "C", "D">>
StopRows(i) ==
    {[id |-> StopIds[i]]}
    \cup {[id |-> StopIds[i], lat |-> m, lon |-> 0] : m \in Places}

RECURSIVE StopLists(_)
StopLists(n) ==
    IF n = 0 THEN {<<>>}
    ELSE LET shorter == StopLists(n - 1)
         IN shorter \cup {Append(q, row) :
                            q \in {x \in shorter : Len(x) = n - 1},
                            row \in StopRows(n)}

MaxDistances == {4, 500}
MaxConnections == {2, 10}

InitWalking ==
    /\ nodes \in StopLists(MaxStops)
    /\ edges = <<>>
    /\ nodes_df = "None"
    /\ edges_df = "None"
    /\ req = NoReq
    /\ resp = NoResp
    /\ CacheConstructed /\ FfiConstructed
    /\ PipelineConstructed /\ StreamerConstructed

\* edges = create_walking_connections(nodes, max_distance_m,
\*                                    max_connections_per_node, 5.0,
\*                                    bidirectional)
CreateWalkingConnections ==
    /\ resp = NoResp
    /\ \E max_distance_m \in MaxDistances,
          max_connections_per_node \in MaxConnections,
          bidirectional \in BOOLEAN :
         /\ req' = [NoReq EXCEPT !.op = "create_walking_connections",
                                 !.k = max_distance_m]
         /\ edges' = create_walking_connections(nodes, max_distance_m,
                        max_connections_per_node, bidirectional)
    /\ resp' = [NoResp EXCEPT !.status = 200]
    /\ UNCHANGED <<nodes, nodes_df, edges_df>>
    /\ UNCHANGED <<cache_vars, ffi_vars, pipeline_vars, stream_vars>>

\* the list is handed to the caller
ReturnEdges ==
    /\ resp # NoResp
    /\ req' = NoReq
    /\ resp' = NoResp
    /\ UNCHANGED <<nodes, edges, nodes_df, edges_df>>
    /\ UNCHANGED <<cache_vars, ffi_vars, pipeline_vars, stream_vars>>

NextWalking ==
    \/ CreateWalkingConnections
    \/ ReturnEdges

SpecWalking == InitWalking /\ [][NextWalking]_vars

(***************************************************************************)
(* C26: every walking edge produced by create_walking_connections, for     *)
(* any list of nodes and any max_distance_m, has tempo_min > 0.            *)
(***************************************************************************)
C26_WalkingTimesPositive ==
    req.op = "create_walking_connections" =>
       \A e \in 1..Len(edges) : edges[e].tempo_min > 0

\* what the code guarantees: no time is negative, and the time is positive
\* when the two nodes are 5 metres or more apart
WalkingTimesNotNegative ==
    req.op = "create_walking_connections" =>
       \A e \in 1..Len(edges) :
          /\ edges[e].tempo_min >= 0
          /\ \A i, j \in 1..Len(nodes) :
                (/\ nodes[i].id = edges[e].from
                 /\ nodes[j].id = edges[e].to
                 /\ haversine_distance(nodes[i].lat, 0, nodes[j].lat, 0) >= 5)
                => edges[e].tempo_min > 0

\* two stops 3 metres apart were connected by an edge of time 0.0
C26_Witness ==
    /\ req.op = "create_walking_connections"
    /\ Len(nodes) >= 2
    /\ HasCoordinates(nodes[1]) /\ HasCoordinates(nodes[2])
    /\ nodes[1].lat = 0 /\ nodes[2].lat = 3
    /\ \E e \in 1..Len(edges) :
          /\ edges[e].from = "A" /\ edges[e].to = "B"
          /\ edges[e].tempo_min = 0


----------------------------------------------------------------------------
(***************************************************************************)
(* The result cache (api/app/cache.py).  get, set and clear run under the  *)
(* cache's RLock, so the calls of concurrent threads take effect one after *)
(* the other, in any order; the clock advances between them.  A dict is a  *)
(* sequence of entries in insertion order.                                 *)
(***************************************************************************)
max_size == 2      \* LRUCache.max_size of the model
ttl == 2           \* LRUCache.ttl of the model, in seconds
MaxClock == 3      \* the clock stops at this time

Keys == {"k1", "k2", "k3"}
Values == {"v1", "v2"}

\* key in d
HasKey(d, key) == \E i \in 1..Len(d) : d[i].key = key

\* d[key]
Entry(d, key) == d[CHOOSE i \in 1..Len(d) : d[i].key = key]

\* d.pop(key, None)
RECURSIVE Pop(_, _)
Pop(d, key) ==
    IF d = <<>> THEN <<>>
    ELSE IF d[1].key = key THEN Pop(Tail(d), key)
    ELSE <<d[1]>> \o Pop(Tail(d), key)

\* d[e.key] = e: in place when the key is there, at the end when it is new
RECURSIVE Put(_, _)
Put(d, e) ==
    IF d = <<>> THEN <<e>>
    ELSE IF d[1].key = e.key THEN <<e>> \o Tail(d)
    ELSE <<d[1]>> \o Put(Tail(d), e)

\* an entry is kept one second longer than ttl
_is_expired_a_second_late(c, key, now) ==
    IF ~HasKey(c, key) THEN TRUE
    ELSE now - Entry(c, key).timestamp > ttl + 1

\* LRUCache._is_expired on cache dict c at time now
_is_expired(c, key, now) ==
    IF ~HasKey(c, key) THEN TRUE
    ELSE now - Entry(c, key).timestamp > ttl

\* the key min() returns: the first in insertion order among those with the
\* smallest access time
lru_key(a) ==
    a[CHOOSE i \in 1..Len(a) :
         \A j \in 1..Len(a) :
            a[i].time < a[j].time \/ (a[i].time = a[j].time /\ i <= j)].key

\* the entry used last is removed
_evict_lru_newest(c, a) ==
    IF a = <<>> THEN [cache |-> c, access_times |-> a, evicted |-> "None"]
    ELSE LET key == a[CHOOSE i \in 1..Len(a) :
                        \A j \in 1..Len(a) :
                           \/ a[i].time > a[j].time
                           \/ (a[i].time = a[j].time /\ i >= j)].key
         IN [cache |-> Pop(c, key), access_times |-> Pop(a, key),
             evicted |-> key]

\* LRUCache._evict_lru (with _remove_key) on the dicts c, a
_evict_lru(c, a) ==
    IF a = <<>> THEN [cache |-> c, access_times |-> a, evicted |-> "None"]
    ELSE [cache |-> Pop(c, lru_key(a)), access_times |-> Pop(a, lru_key(a)),
          evicted |-> lru_key(a)]

\* LRUCache.get(key) at time now: the dicts after the call and the value
\* returned
cache_get(c, a, key, now) ==
    IF ~HasKey(c, key) \/ _is_expired(c, key, now)
    THEN [cache |-> Pop(c, key),
          access_times |-> IF HasKey(c, key) THEN Pop(a, key) ELSE a,
          value |-> "None"]
    ELSE [cache |-> c,
          access_times |-> Put(a, [key |-> key, time |-> now]),
          value |-> Entry(c, key).value]

\* LRUCache.set(key, value) at time now: the dicts after the call and the key
\* evicted to make room
cache_set(c, a, key, value, now) ==
    LET c1 == IF HasKey(c, key) THEN Pop(c, key) ELSE c
        a1 == IF HasKey(c, key) THEN Pop(a, key) ELSE a
        room == IF Len(c1) >= max_size THEN _evict_lru(c1, a1)
                ELSE [cache |-> c1, access_times |-> a1, evicted |-> "None"]
    IN [cache |-> Append(room.cache, [key |-> key, value |-> value,
                                      timestamp |-> now]),
        access_times |-> Put(room.access_times, [key |-> key, time |-> now]),
        evicted |-> room.evicted]

\* the entries of the history with the given keys marked as gone
RECURSIVE MarkGone(_, _)
MarkGone(w, keys) ==
    IF w = <<>> THEN <<>>
    ELSE <<[w[1] EXCEPT !.gone = w[1].gone \/ w[1].key \in keys]>>
           \o MarkGone(Tail(w), keys)

InitCache ==
    /\ nodes = NodeTable
    /\ edges = EdgePool
    /\ nodes_df = "None"
    /\ edges_df = "None"
    /\ req = NoReq
    /\ resp = NoResp
    /\ CacheConstructed /\ FfiConstructed
    /\ PipelineConstructed /\ StreamerConstructed

CacheGet ==
    /\ \E key \in Keys :
         \E out \in {cache_get(cache, access_times, key, clock)} :
            /\ cache' = out.cache
            /\ access_times' = out.access_times
            /\ got' = [op |-> "get", key |-> key, value |-> out.value,
                       at |-> clock, evicted |-> "None"]
    /\ UNCHANGED <<clock, written>>
    /\ UNCHANGED <<facade_vars, ffi_vars, pipeline_vars, stream_vars>>

CacheSet ==
    /\ \E key \in Keys, value \in Values :
         \E out \in {cache_set(cache, access_times, key, value, clock)} :
            /\ cache' = out.cache
            /\ access_times' = out.access_times
            /\ written' = Put(MarkGone(written, {out.evicted}),
                              [key |-> key, value |-> value, at |-> clock,
                               gone |-> FALSE])
            /\ got' = [op |-> "set", key |-> key, value |-> "None",
                       at |-> clock, evicted |-> out.evicted]
    /\ UNCHANGED clock
    /\ UNCHANGED <<facade_vars, ffi_vars, pipeline_vars, stream_vars>>

CacheClear ==
    /\ cache' = <<>>
    /\ access_times' = <<>>
    /\ written' = MarkGone(written, Keys)
    /\ got' = [op |-> "clear", key |-> "", value |-> "None", at |-> clock,
               evicted |-> "None"]
    /\ UNCHANGED clock
    /\ UNCHANGED <<facade_vars, ffi_vars, pipeline_vars, stream_vars>>

\* a second passes
Tick ==
    /\ clock < MaxClock
    /\ clock' = clock + 1
    /\ UNCHANGED <<cache, access_times, written, got>>
    /\ UNCHANGED <<facade_vars, ffi_vars, pipeline_vars, stream_vars>>

NextCache ==
    \/ CacheGet
    \/ CacheSet
    \/ CacheClear
    \/ Tick

SpecCache == InitCache /\ [][NextCache]_vars

\* the last call was get(key), and the most recent set of the key happened
\* at most ttl seconds before it, with no eviction or clear of the key since
FreshWrite ==
    /\ got.op = "get"
    /\ HasKey(written, got.key)
    /\ ~Entry(written, got.key).gone
    /\ got.at - Entry(written, got.key).at <= ttl

(***************************************************************************)
(* C24: get(k) returns the value of the most recent set(k, v) when that    *)
(* set happened at most ttl seconds before and k was neither evicted nor   *)
(* cleared since; in every other case it returns None.                     *)
(***************************************************************************)
C24_LastWriteWithinTtl ==
    got.op = "get" =>
       IF FreshWrite THEN got.value = Entry(written, got.key).value
       ELSE got.value = "None"

\* a key written twice is read exactly ttl seconds after the second write
C24_Witness ==
    /\ FreshWrite
    /\ got.at - Entry(written, got.key).at = ttl
    /\ got.value = "v2"
    /\ clock = MaxClock


\* the keys of a dict
KeySet(d) == {d[i].key : i \in 1..Len(d)}

\* at most max_size entries, and the same keys, each once, in both dicts
SizeAndKeySets ==
    /\ Len(cache) <= max_size
    /\ KeySet(cache) = KeySet(access_times)
    /\ Cardinality(KeySet(cache)) = Len(cache)
    /\ Len(access_times) = Len(cache)

\* this step is a set of a new key into a full cache
SetMakesRoom ==
    /\ got'.op = "set"
    /\ cache' # cache
    /\ ~HasKey(cache, got'.key)
    /\ Len(cache) >= max_size

\* exactly one entry went, and no entry had an older access time
OldestRemoved ==
    \E key \in KeySet(cache) :
       /\ KeySet(cache') = (KeySet(cache) \ {key}) \cup {got'.key}
       /\ \A j \in 1..Len(access_times) :
             Entry(access_times, key).time <= access_times[j].time

(***************************************************************************)
(* C28: after any sequence of get, set and clear on a cache with           *)
(* max_size >= 1 there are at most max_size entries and the value map and  *)
(* the access-time map have the same keys; when set must make room, the    *)
(* entry removed is one with the oldest access time.                       *)
(***************************************************************************)
C28_BoundedAndEvictsOldest ==
    /\ []SizeAndKeySets
    /\ [][SetMakesRoom => OldestRemoved]_vars

\* a set evicted a key that was written after a key that stays, because the
\* older key was read in between
C28_Witness ==
    /\ got.op = "set"
    /\ got.evicted # "None"
    /\ Len(cache) = max_size
    /\ \E key \in KeySet(cache) \ {got.key} :
          Entry(written, key).at < Entry(written, got.evicted).at


----------------------------------------------------------------------------
(***************************************************************************)
(* The route buffers of the engine wrapper (api/app/ffi.py).  Each Route   *)
(* the native engine fills is followed through the wrapper call: how often *)
(* free_route was called on it and how often it was read after that.  An   *)
(* exception may be raised while a route is copied into a Python list.     *)
(***************************************************************************)
\* the buffer of a route of len nodes as the engine hands it over
Handed(len) == [len |-> len, frees |-> 0, stale_reads |-> 0]

\* [r.path[i] for i in range(r.len)], r.custo: the buffer is read
read_route(buffer) ==
    [buffer EXCEPT !.stale_reads = @ + (IF buffer.frees > 0 THEN 1 ELSE 0)]

\* lib.free_route(ct.byref(r))
free_route(buffer) == [buffer EXCEPT !.frees = @ + 1]

\* the buffer of Engine.best after the call; raises: the copy of the path
\* raises.  The finally clause runs on every way out of the try block.
best_buffers(r, raises) ==
    IF r.len = 0 THEN <<free_route(Handed(0))>>
    ELSE IF raises THEN <<free_route(Handed(r.len))>>
    ELSE <<free_route(read_route(Handed(r.len)))>>

\* the loop of Engine.k_alternatives from route i on; raise_at: the route
\* whose copy raises, 0 when none does
RECURSIVE copy_routes(_, _, _)
copy_routes(buffers, i, raise_at) ==
    IF i > Len(buffers) \/ i = raise_at THEN buffers
    ELSE copy_routes([buffers EXCEPT ![i] = free_route(read_route(@))],
                     i + 1, raise_at)

\* the buffers of Engine.k_alternatives after the call
k_alternatives_buffers(routes, raise_at) ==
    copy_routes([i \in 1..Len(routes) |-> Handed(routes[i].len)], 1, raise_at)

\* the graphs of the wrapper: the sample nodes with no edge, the sample edges
\* and the whole pool
WrapperEdgeTables == {<<>>, SubTable(EdgePool, 1..7, 1), EdgePool}

InitWrapper ==
    /\ nodes = NodeTable
    /\ edges \in WrapperEdgeTables
    /\ nodes_df = "None"
    /\ edges_df = "None"
    /\ req = NoReq
    /\ resp = NoResp
    /\ CacheConstructed /\ FfiConstructed
    /\ PipelineConstructed /\ StreamerConstructed

\* Engine.best(s, t, p); status 500 stands for the exception leaving the call
EngineBest ==
    /\ resp = NoResp
    /\ \E s \in Idx, t \in Idx, perfil \in Perfis, chuva \in BOOLEAN,
          raises \in BOOLEAN :
         \E r \in {dijkstra_shortest(s, t, _params(perfil, chuva))} :
            /\ raises => r.len > 0
            /\ req' = [NoReq EXCEPT !.op = "best", !.from = node_id(s),
                                    !.to = node_id(t), !.perfil = perfil,
                                    !.chuva = chuva]
            /\ route_buffers' = best_buffers(r, raises)
            /\ resp' = IF raises THEN [NoResp EXCEPT !.status = 500]
                       ELSE [NoResp EXCEPT
                               !.status = 200,
                               !.path = IF r.len = 0 THEN <<>> ELSE r.path,
                               !.cost = IF r.len = 0 THEN 0 ELSE r.custo]
    /\ UNCHANGED <<nodes, edges, nodes_df, edges_df>>
    /\ UNCHANGED <<cache_vars, pipeline_vars, stream_vars>>

\* Engine.k_alternatives(s, t, p, k)
EngineKAlternatives ==
    /\ resp = NoResp
    /\ \E s \in Idx, t \in Idx, perfil \in Perfis, chuva \in BOOLEAN,
          k \in 1..MaxK :
         \E routes \in {k_shortest_yen(s, t, _params(perfil, chuva), k)} :
            \E raise_at \in 0..Len(routes) :
               /\ req' = [NoReq EXCEPT !.op = "k_alternatives",
                                       !.from = node_id(s), !.to = node_id(t),
                                       !.perfil = perfil, !.chuva = chuva,
                                       !.k = k]
               /\ route_buffers' = k_alternatives_buffers(routes, raise_at)
               /\ resp' = IF raise_at > 0 THEN [NoResp EXCEPT !.status = 500]
                          ELSE [NoResp EXCEPT
                                  !.status = 200,
                                  !.routes =
                                     [i \in 1..Len(routes) |->
                                        [path |-> routes[i].path,
                                         cost |-> routes[i].custo]]]
    /\ UNCHANGED <<nodes, edges, nodes_df, edges_df>>
    /\ UNCHANGED <<cache_vars, pipeline_vars, stream_vars>>

\* the caller has the result or the exception
WrapperReturns ==
    /\ resp # NoResp
    /\ req' = NoReq
    /\ resp' = NoResp
    /\ route_buffers' = <<>>
    /\ UNCHANGED <<nodes, edges, nodes_df, edges_df>>
    /\ UNCHANGED <<cache_vars, pipeline_vars, stream_vars>>

NextWrapper ==
    \/ EngineBest
    \/ EngineKAlternatives
    \/ WrapperReturns

SpecWrapper == InitWrapper /\ [][NextWrapper]_vars

(***************************************************************************)
(* C25: every route buffer handed to Engine.best or Engine.k_alternatives  *)
(* is released with free_route exactly once on every exit path, and no     *)
(* route is read after it has been released.                               *)
(***************************************************************************)
C25_RoutesReleasedOnce ==
    \A i \in 1..Len(route_buffers) :
       /\ route_buffers[i].frees = 1
       /\ route_buffers[i].stale_reads = 0

\* what the code guarantees: no buffer is released twice or read after its
\* release; Engine.best releases its buffer on every exit path, and
\* Engine.k_alternatives releases every buffer when no copy raises
ReleasedUnlessCopyRaises ==
    /\ \A i \in 1..Len(route_buffers) :
          /\ route_buffers[i].frees <= 1
          /\ route_buffers[i].stale_reads = 0
    /\ (req.op = "best" \/ resp.status = 200)
          => \A i \in 1..Len(route_buffers) : route_buffers[i].frees = 1

\* the copy of the second of three routes raised: two buffers stay allocated
C25_Witness ==
    /\ req.op = "k_alternatives"
    /\ resp.status = 500
    /\ Len(route_buffers) = 3
    /\ route_buffers[1].frees = 1
    /\ route_buffers[2].frees = 0 /\ route_buffers[2].len > 0
    /\ route_buffers[3].frees = 0


----------------------------------------------------------------------------
(***************************************************************************)
(* The pipeline manager (integration/pipeline_manager.py).  Its methods    *)
(* are coroutines on one event loop: a coroutine runs alone from one await *)
(* to the next, and the coroutines of other callers run while it waits in  *)
(* asyncio.gather, in the status callbacks or in asyncio.sleep.            *)
(***************************************************************************)
\* the caller has no coroutine in flight
Free(c) == pipeline_calls[c].pc \in {"returned", "ignored", "raised"}

At(c, pc) == pipeline_calls[c].pc = pc

Goto(c, op, pc) ==
    pipeline_calls' = [pipeline_calls EXCEPT ![c] = [op |-> op, pc |-> pc]]

\* start_pipeline up to its first await, called as op by caller c
start_pipeline(c, op) ==
    IF pipeline_status # "stopped"
    THEN /\ Goto(c, op, "ignored")
         /\ UNCHANGED pipeline_status
    ELSE /\ pipeline_status' = "starting"
         /\ Goto(c, op, "start_gather")

\* stop_pipeline up to its first await
stop_pipeline(c, op) ==
    IF pipeline_status \notin {"running", "paused"}
    THEN /\ Goto(c, op, IF op = "restart" THEN "sleep" ELSE "ignored")
         /\ UNCHANGED pipeline_status
    ELSE /\ pipeline_status' = "stopping"
         /\ Goto(c, op, "stop_gather")

\* a resume that takes effect in every status but error
resume_pipeline_unguarded(c) ==
    IF pipeline_status = "error"
    THEN /\ Goto(c, "resume", "ignored")
         /\ UNCHANGED pipeline_status
    ELSE /\ pipeline_status' = "running"
         /\ Goto(c, "resume", "notify")

\* pause_pipeline up to its await
pause_pipeline(c) ==
    IF pipeline_status # "running"
    THEN /\ Goto(c, "pause", "ignored")
         /\ UNCHANGED pipeline_status
    ELSE /\ pipeline_status' = "paused"
         /\ Goto(c, "pause", "notify")

\* resume_pipeline up to its await
resume_pipeline(c) ==
    IF pipeline_status # "paused"
    THEN /\ Goto(c, "resume", "ignored")
         /\ UNCHANGED pipeline_status
    ELSE /\ pipeline_status' = "running"
         /\ Goto(c, "resume", "notify")

BesidePipeline == <<facade_vars, cache_vars, ffi_vars, stream_vars>>

StartPipeline ==
    /\ \E c \in Callers : Free(c) /\ start_pipeline(c, "start")
    /\ UNCHANGED BesidePipeline

StopPipeline ==
    /\ \E c \in Callers : Free(c) /\ stop_pipeline(c, "stop")
    /\ UNCHANGED BesidePipeline

PausePipeline ==
    /\ \E c \in Callers : Free(c) /\ pause_pipeline(c)
    /\ UNCHANGED BesidePipeline

ResumePipeline ==
    /\ \E c \in Callers : Free(c) /\ resume_pipeline(c)
    /\ UNCHANGED BesidePipeline

\* restart_pipeline up to its first await: stop_pipeline when the status is
\* running or paused, the sleep otherwise
RestartPipeline ==
    /\ \E c \in Callers : Free(c) /\ stop_pipeline(c, "restart")
    /\ UNCHANGED BesidePipeline

\* await asyncio.gather(*tasks) of start_pipeline returns
ComponentsStarted ==
    /\ \E c \in Callers :
         /\ At(c, "start_gather")
         /\ pipeline_status' = "running"
         /\ Goto(c, pipeline_calls[c].op, "notify")
    /\ UNCHANGED BesidePipeline

\* await asyncio.gather(*tasks) of start_pipeline raises: the except clause
\* up to its await
ComponentsFailed ==
    /\ \E c \in Callers :
         /\ At(c, "start_gather")
         /\ pipeline_status' = "error"
         /\ Goto(c, pipeline_calls[c].op, "notify_error")
    /\ UNCHANGED BesidePipeline

\* await asyncio.gather(*tasks, return_exceptions=True) of stop_pipeline
\* returns
ComponentsStopped ==
    /\ \E c \in Callers :
         /\ At(c, "stop_gather")
         /\ pipeline_status' = "stopped"
         /\ Goto(c, pipeline_calls[c].op, "stop_notify")
    /\ UNCHANGED BesidePipeline

\* the callbacks are through (their exceptions are logged, not raised): the
\* method returns or re-raises; restart_pipeline goes on to its sleep
CallbacksNotified ==
    /\ \E c \in Callers :
         \/ /\ At(c, "notify")
            /\ Goto(c, pipeline_calls[c].op, "returned")
         \/ /\ At(c, "stop_notify")
            /\ Goto(c, pipeline_calls[c].op,
                    IF pipeline_calls[c].op = "restart" THEN "sleep"
                    ELSE "returned")
         \/ /\ At(c, "notify_error")
            /\ Goto(c, pipeline_calls[c].op, "raised")
    /\ UNCHANGED pipeline_status
    /\ UNCHANGED BesidePipeline

\* await asyncio.sleep(5) of restart_pipeline returns: start_pipeline up to
\* its first await
Slept ==
    /\ \E c \in Callers : At(c, "sleep") /\ start_pipeline(c, "restart")
    /\ UNCHANGED BesidePipeline

InitPipeline ==
    /\ nodes = NodeTable
    /\ edges = EdgePool
    /\ nodes_df = "None"
    /\ edges_df = "None"
    /\ req = NoReq
    /\ resp = NoResp
    /\ CacheConstructed /\ FfiConstructed
    /\ PipelineConstructed /\ StreamerConstructed

NextPipeline ==
    \/ StartPipeline
    \/ StopPipeline
    \/ PausePipeline
    \/ ResumePipeline
    \/ RestartPipeline
    \/ ComponentsStarted
    \/ ComponentsFailed
    \/ ComponentsStopped
    \/ CallbacksNotified
    \/ Slept

SpecPipeline == InitPipeline /\ [][NextPipeline]_vars

\* the changes of status of the claim
StatusChanges ==
    {<<"stopped", "starting">>, <<"starting", "running">>,
     <<"running", "paused">>, <<"paused", "running">>,
     <<"running", "stopping">>, <<"paused", "stopping">>,
     <<"stopping", "stopped">>,
     <<"starting", "error">>, <<"stopping", "error">>}

\* caller c enters method op in this step
Enters(c, op) ==
    /\ Free(c)
    /\ pipeline_calls'[c] # pipeline_calls[c]
    /\ pipeline_calls'[c].op = op

\* the statuses in which a call of the method takes effect
EffectiveIn(op) ==
    CASE op = "start" -> {"stopped"}
      [] op = "stop" -> {"running", "paused"}
      [] op = "pause" -> {"running"}
      [] op = "resume" -> {"paused"}
      [] OTHER -> {"running", "paused"}

(***************************************************************************)
(* C29: the status changes only along stopped -> starting -> running,      *)
(* running <-> paused, running or paused -> stopping -> stopped, and        *)
(* starting or stopping -> error; a call made in a status in which the     *)
(* method has no effect leaves the status unchanged, also when made while  *)
(* another start or stop is waiting; nothing changes the status once it is *)
(* error.                                                                  *)
(***************************************************************************)
C29_StatusTransitions ==
    [][/\ pipeline_status' # pipeline_status
          => <<pipeline_status, pipeline_status'>> \in StatusChanges
       /\ \A c \in Callers, op \in {"start", "stop", "pause", "resume"} :
             (Enters(c, op) /\ pipeline_status \notin EffectiveIn(op))
                => pipeline_status' = pipeline_status
       /\ pipeline_status = "error" => pipeline_status' = "error"]_vars

\* a start failed while waiting for the components, and the other caller's
\* pause had no effect
C29_Witness ==
    /\ pipeline_status = "error"
    /\ \E c, d \in Callers :
          /\ pipeline_calls[c] = [op |-> "start", pc |-> "raised"]
          /\ pipeline_calls[d] = [op |-> "pause", pc |-> "ignored"]


----------------------------------------------------------------------------
(***************************************************************************)
(* The stream workers (integration/data_streaming.py).  A worker is a task *)
(* on the event loop; one pass of its while loop, from the test of the     *)
(* loop condition to the sleep that ends the pass, is one step.            *)
(***************************************************************************)
retry_attempts == 3      \* StreamConfig.retry_attempts
MaxFailedCycles == 4     \* the run of failed cycles is counted up to here
MaxFailedStreams == 2    \* no streaming is started past this many failures

\* what a pass can meet: the fetch returns data; it returns an empty
\* document; it fails (no answer, a status other than 200: logged, None is
\* returned); the processing of the data fails (logged, no message); a
\* statement of the loop body raises
CycleOutcomes == {"data", "empty", "fetch_failed", "process_failed", "raised"}

FailedOutcomes == {"fetch_failed", "process_failed", "raised"}

\* one pass of the loop of _stream_worker for the worker w
_stream_worker(w, outcome) ==
    LET run == IF outcome \in FailedOutcomes
               THEN (IF w.failed_cycles < MaxFailedCycles
                     THEN w.failed_cycles + 1 ELSE w.failed_cycles)
               ELSE IF outcome = "data" THEN 0 ELSE w.failed_cycles
    IN CASE outcome \in {"data", "process_failed"} ->
              [w EXCEPT !.retry_count = 0, !.failed_cycles = run,
                        !.last = outcome]
         [] outcome \in {"empty", "fetch_failed"} ->
              [w EXCEPT !.failed_cycles = run, !.last = outcome]
         [] OTHER ->
              [w EXCEPT !.retry_count = @ + 1, !.failed_cycles = run,
                        !.last = outcome,
                        !.pc = IF w.retry_count + 1 < retry_attempts
                               THEN "loop" ELSE "failed"]

Terminated(s) == workers[s].pc # "loop"

BesideStreamer == <<facade_vars, cache_vars, ffi_vars, pipeline_vars>>

\* start_streaming, called when no streaming is on (PipelineManager calls it
\* from start_pipeline, after a stop_streaming that has awaited its tasks)
StartStreaming ==
    /\ ~is_running
    /\ \A s \in Streams : Terminated(s)
    /\ failed_streams < MaxFailedStreams
    /\ is_running' = TRUE
    /\ workers' = [s \in Streams |-> [NoWorker EXCEPT !.pc = "loop"]]
    /\ UNCHANGED failed_streams
    /\ UNCHANGED BesideStreamer

\* stop_streaming up to its await: every task is cancelled
StopStreaming ==
    /\ is_running
    /\ is_running' = FALSE
    /\ workers' = [s \in Streams |->
                     IF Terminated(s) THEN workers[s]
                     ELSE [workers[s] EXCEPT !.cancelled = TRUE]]
    /\ UNCHANGED failed_streams
    /\ UNCHANGED BesideStreamer

\* one pass of the loop of a worker
WorkerCycle ==
    /\ \E s \in Streams, outcome \in CycleOutcomes :
         /\ workers[s].pc = "loop"
         /\ ~workers[s].cancelled
         /\ is_running /\ workers[s].retry_count < retry_attempts
         /\ \E w \in {_stream_worker(workers[s], outcome)} :
              /\ workers' = [workers EXCEPT ![s] = w]
              /\ failed_streams' = failed_streams
                                     + (IF w.pc = "failed" THEN 1 ELSE 0)
    /\ UNCHANGED is_running
    /\ UNCHANGED BesideStreamer

\* the cancellation reaches the worker at its await
WorkerCancelled ==
    /\ \E s \in Streams :
         /\ workers[s].pc = "loop"
         /\ workers[s].cancelled
         /\ workers' = [workers EXCEPT ![s].pc = "cancelled"]
    /\ UNCHANGED <<is_running, failed_streams>>
    /\ UNCHANGED BesideStreamer

\* the loop condition is tested with is_running false
WorkerExits ==
    /\ \E s \in Streams :
         /\ workers[s].pc = "loop"
         /\ ~is_running
         /\ workers' = [workers EXCEPT ![s].pc = "exited"]
    /\ UNCHANGED <<is_running, failed_streams>>
    /\ UNCHANGED BesideStreamer

InitStreamer ==
    /\ nodes = NodeTable
    /\ edges = EdgePool
    /\ nodes_df = "None"
    /\ edges_df = "None"
    /\ req = NoReq
    /\ resp = NoResp
    /\ CacheConstructed /\ FfiConstructed
    /\ PipelineConstructed /\ StreamerConstructed

NextStreamer ==
    \/ StartStreaming
    \/ StopStreaming
    \/ WorkerCycle
    \/ WorkerCancelled
    \/ WorkerExits

SpecStreamer == InitStreamer /\ [][NextStreamer]_vars

\* the event loop runs every task that can run
SpecStreamerFair ==
    /\ SpecStreamer
    /\ WF_vars(WorkerCancelled)
    /\ WF_vars(WorkerExits)

(***************************************************************************)
(* C30: a worker whose cycles keep failing stops after retry_attempts      *)
(* consecutive failed cycles, and failed_streams is then incremented       *)
(* exactly once; a successful cycle resets the count of consecutive        *)
(* failures to 0.                                                          *)
(***************************************************************************)
C30_StopsAfterFailedCycles ==
    \A s \in Streams :
       /\ workers[s].failed_cycles >= retry_attempts => Terminated(s)
       /\ workers[s].last = "data" => workers[s].retry_count = 0

\* C30, termination: once stop_streaming has set is_running to false, every
\* worker terminates
WorkersTerminate == (~is_running) ~> (\A s \in Streams : Terminated(s))

\* what the code guarantees: a worker stops, and counts as failed, when
\* retry_attempts passes in a row raised in the loop body; fetches that fail
\* do not count
StopsAfterRaisedCycles ==
    \A s \in Streams :
       /\ workers[s].pc = "loop" => workers[s].retry_count < retry_attempts
       /\ workers[s].pc = "failed" <=> workers[s].retry_count = retry_attempts
       /\ workers[s].last = "data" => workers[s].retry_count = 0
       /\ failed_streams >= Cardinality({x \in Streams : workers[x].pc = "failed"})

\* failed_streams goes up by one exactly when one worker gives up
CountedOnce ==
    [][failed_streams' # failed_streams =>
         /\ failed_streams' = failed_streams + 1
         /\ Cardinality({s \in Streams : /\ workers[s].pc = "loop"
                                         /\ workers'[s].pc = "failed"}) = 1]_vars

\* a worker is still fetching after four failed fetches in a row, with no
\* failure counted
C30_Witness ==
    /\ is_running
    /\ failed_streams = 0
    /\ \E s \in Streams :
          /\ workers[s].pc = "loop"
          /\ workers[s].last = "fetch_failed"
          /\ workers[s].failed_cycles = MaxFailedCycles
          /\ workers[s].retry_count = 0

============================================================================
